---- MODULE Spec2Model ----
(***************************************************************************)
(* Model of the Go mining backend: the session gate (authMiddleware) and   *)
(* the three ledger handlers (handlePurchasePower, handleStartMining,      *)
(* handleClaimRewards) of src/go-backend/main.go.                          *)
(*                                                                         *)
(* Every HTTP request is an independent unit of work.  A protected request *)
(* runs in two database steps: authMiddleware SELECTs the user's row and   *)
(* stores the copy in the request context; the handler then decides on     *)
(* that copy and issues one UPDATE with values computed from the copy.     *)
(* Balances are whole numbers of units; decimal arithmetic on them is      *)
(* exact.                                                                  *)
(*                                                                         *)
(* The module also models the admin gate, logout, the access-key hash      *)
(* (createUser, verifyAccessKey, splitHashedKey, compareHashes) and the    *)
(* device gate (upsertDevice, linkUserToDevice), each under a              *)
(* specification of its own.                                               *)
(***************************************************************************)
EXTENDS Integers, FiniteSets, Sequences, TLC

\* ---- bounds of the model ----
MaxReqs == 2
MaxUSDT == 2
MaxHash == 1
MaxGBTC == 1
MaxUnclaimed == 1
MaxAmount == 2
MaxTail == 2
MaxSalts == 2
MaxByte == 2
MaxCmpLen == 2
MaxChecks == 3
MaxDays == 31

\* ---- program constants ----
MinPurchase == 1
MinAccessKey == 6
MinUsername == 3
MaxUsername == 20
SaltLen == 32
KeyLen == 32
DefaultMaxRegistrations == 2
\* The MaxAge of the session cookie that the server sets, in days.
SessionMaxAge == 7
\* The age, in days, up to which the cookie store's codecs accept a cookie:
\* sessions.NewCookieStore sets it to the library's default, and main never
\* calls store.MaxAge to change it.
CodecMaxAge == 30

Users == {"u1", "u2"}
NoUser == ""
MissingID == "u0"
SessionIDs == Users \cup {NoUser, MissingID}
Reqs == 1..MaxReqs
Amounts == (-1)..MaxAmount
NoRow == [id |-> NoUser]
NoAmount == 0

\* A decimal number of a request body: units + tail * 10^-17.  The tail is a
\* digit in the seventeenth decimal place, which is less than half the gap
\* (2^-52) between neighbouring float64 values from 1 upwards.
Decimal(units, tail) == [units |-> units, tail |-> tail]
NoBody == Decimal(0, 0)
\* The amounts of the purchase requests: the whole numbers of Amounts and
\* 1.00000000000000001.
Bodies == {Decimal(a, 0) : a \in Amounts} \cup {Decimal(1, 1)}

VARIABLES users, users0, reqs, cred, cmp, devices, clients, now

\* now is the server's clock, in days since start-up.

\* The credential functions' variables and the device gate's variables.
credVars == <<cred, cmp>>
deviceVars == <<devices, clients>>

vars == <<users, users0, reqs, cred, cmp, devices, clients, now>>

\* A users-table row (the columns the gate and the ledger handlers use).
User(id, usdt, hash, gbtc, unclaimed, banned, frozen) ==
    [id |-> id, usdtBalance |-> usdt, hashPower |-> hash, gbtcBalance |-> gbtc,
     unclaimedBalance |-> unclaimed, hasStartedMining |-> FALSE,
     isBanned |-> banned, isFrozen |-> frozen, isAdmin |-> FALSE]

\* users is the users table; users0 remembers the table as it was before the
\* first request; reqs holds, per request, its position (pc), the user id in
\* its session cookie (sess) and the day on which that cookie was encoded
\* (sessAt), its route, the amount in its body (body), the decoded amount, the copy of the
\* row that the gate put into the request context (user), the answer
\* (result), whether its UPDATE committed (wrote) and whether another
\* request's UPDATE of the same row committed after the copy was read
\* (stale).

\* A request that has not arrived yet.
IdleReq ==
    [pc |-> "idle", sess |-> NoUser, sessAt |-> 0, route |-> "none",
     body |-> NoBody, amount |-> NoAmount,
     user |-> NoRow, result |-> "none", wrote |-> FALSE, stale |-> FALSE]

\* getUserByID that answers from the table as it was at start-up (a cached
\* record) instead of reading the row again.
getUserByID_Cached(userID) ==
    IF userID \in DOMAIN users0 THEN users0[userID] ELSE NoRow

\* SELECT ... FROM users WHERE id = $1: the row, or nil when there is none.
getUserByID(userID) ==
    IF userID \in DOMAIN users THEN users[userID] ELSE NoRow

\* The days on which a cookie with this user id can have been encoded: a
\* request without a cookie carries no timestamp.
CookieDays(sess) == IF sess = NoUser THEN {0} ELSE 0..now

\* store.Get and the read of Values["user_id"]: the codecs refuse a cookie
\* that is older than their maximum age, store.Get then hands out a new,
\* empty session (its error is dropped) and the user id is empty.
sessionUserID(sess, at) == IF now - at > CodecMaxAge THEN NoUser ELSE sess

\* authError that looks at the frozen flag before the banned flag.
authError_FrozenFirst(sess, user, dbOK) ==
    IF sess = NoUser THEN "AuthRequired"
    ELSE IF ~dbOK \/ user = NoRow THEN "InvalidSession"
    ELSE IF user.isFrozen THEN "Frozen"
    ELSE IF user.isBanned THEN "Banned"
    ELSE "none"

\* The gate's verdict on the session's user id and the row just read.
authError(sess, user, dbOK) ==
    IF sess = NoUser THEN "AuthRequired"
    ELSE IF ~dbOK \/ user = NoRow THEN "InvalidSession"
    ELSE IF user.isBanned THEN "Banned"
    ELSE IF user.isFrozen THEN "Frozen"
    ELSE "none"

\* ---- the credential functions and the device gate, before their first call ----

\* cred follows one access key: the key and salt that createUser hashed
\* (accessKey, salt), the string it stored (stored), and the last call of
\* verifyAccessKey: the stored form it was given (hashedKey), the plain key
\* and the answer (ok).
CredIdle ==
    [pc |-> "idle", accessKey |-> <<>>, salt |-> <<>>, stored |-> <<>>,
     hashedKey |-> <<>>, plainKey |-> <<>>, ok |-> FALSE]

\* cmp follows one call of compareHashes: its arguments, its answer and the
\* number of times the loop body ran.
CmpIdle ==
    [pc |-> "idle", a |-> <<>>, b |-> <<>>, equal |-> FALSE, iterations |-> 0]

Clients == {1, 2}
NoDevice == ""

\* The fields of a device-check request that calculateRiskScore reads.
Fingerprint(ua, screen, canvas, webgl) ==
    [userAgent |-> ua, screenResolution |-> screen,
     canvasFingerprint |-> canvas, webglFingerprint |-> webgl]

\* devices is the device_fingerprints table, a set of rows; clients holds,
\* per client of the device gate, its position (pc), the number of checks it
\* has sent, the request of its check in progress (serverDeviceID, clientIP,
\* fingerprints), what the check's SELECT found (found and the row's id,
\* registrations, maxRegistrations and blocked), the check's answer
\* (riskScore, canRegister), the outcome of its last call (result) and the
\* user id in the session cookie of its last link (sess) and the device id
\* that this link named (linkID).

\* A client of the device gate that has no call in progress.
IdleClient ==
    [pc |-> "idle", checks |-> 0, serverDeviceID |-> NoDevice,
     clientIP |-> "", fingerprints |-> Fingerprint("", "", "", ""),
     found |-> FALSE,
     deviceID |-> NoDevice, registrations |-> 0, maxRegistrations |-> 0,
     blocked |-> FALSE, riskScore |-> 0, canRegister |-> FALSE,
     result |-> "none", sess |-> NoUser, linkID |-> NoDevice]

LedgerAtRest ==
    /\ users = [u \in Users |->
                   User(u, MaxUSDT, MaxHash, MaxGBTC, MaxUnclaimed,
                        FALSE, FALSE)]
    /\ users0 = users
    /\ reqs = [r \in Reqs |-> IdleReq]
    /\ now = 0

CredentialAtRest == cred = CredIdle /\ cmp = CmpIdle

DeviceAtRest == devices = {} /\ clients = [c \in Clients |-> IdleClient]

Init ==
    /\ \E usdt \in 0..MaxUSDT, hash \in {0, MaxHash}, gbtc \in {0, MaxGBTC},
          unclaimed \in {0, MaxUnclaimed}, banned \in BOOLEAN,
          frozen \in BOOLEAN :
          users = [u \in Users |->
                      User(u, usdt, hash, gbtc, unclaimed, banned, frozen)]
    /\ users0 = users
    /\ reqs = [r \in Reqs |-> IdleReq]
    /\ now = 0
    /\ CredentialAtRest
    /\ DeviceAtRest

\* A request arrives on a protected route and passes through the gate.  The
\* gate does not look at the route: it is recorded when the router hands the
\* request to its handler.
authMiddleware(r) ==
    /\ reqs[r].pc = "idle"
    /\ \A q \in Reqs : q < r => reqs[q].pc # "idle"
    /\ \E sess \in SessionIDs, dbOK \in BOOLEAN :
       \E at \in CookieDays(sess) :
          LET userID == sessionUserID(sess, at)
              user == getUserByID(userID)
              err == authError(userID, user, dbOK)
          IN  reqs' = [reqs EXCEPT ![r] =
                  IF err # "none"
                  THEN [IdleReq EXCEPT !.pc = "done", !.sess = sess,
                                       !.sessAt = at, !.result = err]
                  ELSE [IdleReq EXCEPT !.pc = "authed", !.sess = sess,
                                       !.sessAt = at, !.user = user]]
    /\ UNCHANGED <<users, users0, credVars, deviceVars, now>>

\* ---- handlePurchasePower ----

\* purchaseError without the balance check.
purchaseError_NoBalanceCheck(user, amount) ==
    IF amount < MinPurchase THEN "BelowMinimum" ELSE "none"

\* The checks of handlePurchasePower on the context's copy of the user.
purchaseError(user, amount) ==
    IF amount < MinPurchase THEN "BelowMinimum"
    ELSE IF user.usdtBalance < amount THEN "InsufficientBalance"
    ELSE "none"

\* purchaseRow that debits USDT without crediting hash power.
purchaseRow_NoCredit(row, user, amount) ==
    [row EXCEPT !.usdtBalance = user.usdtBalance - amount]

\* purchaseRow that writes the whole row back from the context's copy.
purchaseRow_WholeCopy(row, user, amount) ==
    [user EXCEPT !.usdtBalance = user.usdtBalance - amount,
                 !.hashPower = user.hashPower + amount]

\* UPDATE users SET usdt_balance = $1, hash_power = $2 WHERE id = $3, with
\* both values computed from the context's copy.
purchaseRow(row, user, amount) ==
    [row EXCEPT !.usdtBalance = user.usdtBalance - amount,
                !.hashPower = user.hashPower + amount]

\* ---- handleStartMining ----

\* startError that lets a user without hash power start.
startError_AllowZero(user) ==
    IF user.hashPower < 0 THEN "NoHashPower" ELSE "none"

startError(user) ==
    IF user.hashPower <= 0 THEN "NoHashPower" ELSE "none"

\* UPDATE users SET has_started_mining = true WHERE id = $1
startRow(row, user) ==
    [row EXCEPT !.hasStartedMining = TRUE]

\* ---- handleClaimRewards ----

\* claimError that lets an empty unclaimed balance be claimed.
claimError_AllowZero(user) ==
    IF user.unclaimedBalance < 0 THEN "NoRewards" ELSE "none"

claimError(user) ==
    IF user.unclaimedBalance <= 0 THEN "NoRewards" ELSE "none"

\* claimRow that credits GBTC and leaves the unclaimed balance in place.
claimRow_KeepUnclaimed(row, user) ==
    [row EXCEPT !.gbtcBalance = user.gbtcBalance + user.unclaimedBalance]

\* claimRow that writes the whole row back from the context's copy.
claimRow_WholeCopy(row, user) ==
    [user EXCEPT !.gbtcBalance = user.gbtcBalance + user.unclaimedBalance,
                 !.unclaimedBalance = 0]

\* UPDATE users SET gbtc_balance = $1, unclaimed_balance = '0' WHERE id = $2
claimRow(row, user) ==
    [row EXCEPT !.gbtcBalance = user.gbtcBalance + user.unclaimedBalance,
                !.unclaimedBalance = 0]

\* json.Decode of the body's amount into a float64: the nearest float64,
\* which for the numbers of Bodies is the whole number without the tail.
Float64(body) == body.units

\* decimal.NewFromFloat: the decimal with the shortest digits that names
\* this float64.
NewFromFloat(f) == Decimal(f, 0)

\* The handler answers without touching the store.
RespondBody(r, route, body, amount, result) ==
    /\ reqs' = [reqs EXCEPT ![r].pc = "done", ![r].route = route,
                            ![r].body = body,
                            ![r].amount = amount, ![r].result = result]
    /\ UNCHANGED <<users, users0, credVars, deviceVars, now>>

Respond(r, route, amount, result) ==
    RespondBody(r, route, NoBody, amount, result)

\* The handler's UPDATE commits and the handler answers 200.  Every other
\* request that still holds a copy of the same row now holds a stale one.
ExecBody(r, route, body, amount, row) ==
    LET id == reqs[r].user.id IN
    /\ users' = [users EXCEPT ![id] = row]
    /\ UNCHANGED <<users0, credVars, deviceVars, now>>
    /\ reqs' = [q \in Reqs |->
                   IF q = r
                   THEN [reqs[q] EXCEPT !.pc = "done", !.route = route,
                                        !.body = body,
                                        !.amount = amount, !.result = "OK",
                                        !.wrote = TRUE]
                   ELSE IF reqs[q].pc = "authed" /\ reqs[q].user.id = id
                   THEN [reqs[q] EXCEPT !.stale = TRUE]
                   ELSE reqs[q]]

Exec(r, route, amount, row) == ExecBody(r, route, NoBody, amount, row)

\* The body's amount goes through a float64 (req.Amount) and from there,
\* with decimal.NewFromFloat, into the checks and the arithmetic.
handlePurchasePower(r) ==
    /\ reqs[r].pc = "authed"
    /\ \E body \in Bodies, dbOK \in BOOLEAN :
          LET user == reqs[r].user
              amount == NewFromFloat(Float64(body)).units
              err == purchaseError(user, amount)
          IN  IF err # "none"
              THEN RespondBody(r, "purchase-power", body, amount, err)
              ELSE IF ~dbOK
              THEN RespondBody(r, "purchase-power", body, amount,
                               "InternalError")
              ELSE ExecBody(r, "purchase-power", body, amount,
                            purchaseRow(users[user.id], user, amount))

handleStartMining(r) ==
    /\ reqs[r].pc = "authed"
    /\ \E dbOK \in BOOLEAN :
          LET user == reqs[r].user
              err == startError(user)
          IN  IF err # "none" THEN Respond(r, "start-mining", NoAmount, err)
              ELSE IF ~dbOK
              THEN Respond(r, "start-mining", NoAmount, "InternalError")
              ELSE Exec(r, "start-mining", NoAmount,
                        startRow(users[user.id], user))

handleClaimRewards(r) ==
    /\ reqs[r].pc = "authed"
    /\ \E dbOK \in BOOLEAN :
          LET user == reqs[r].user
              err == claimError(user)
          IN  IF err # "none" THEN Respond(r, "claim-rewards", NoAmount, err)
              ELSE IF ~dbOK
              THEN Respond(r, "claim-rewards", NoAmount, "InternalError")
              ELSE Exec(r, "claim-rewards", NoAmount,
                        claimRow(users[user.id], user))

\* ---- adminMiddleware and the admin listing behind it ----

\* adminError that lets every authenticated user through.
adminError_AllowAll(user) == "none"

\* The second gate's verdict on the context's copy of the user.
adminError(user) ==
    IF user = NoRow \/ ~user.isAdmin THEN "AdminRequired" ELSE "none"

\* A request that passed authMiddleware on an admin route reaches
\* adminMiddleware and, behind it, the read-only listing.
adminMiddleware(r) ==
    /\ reqs[r].pc = "authed"
    /\ \E dbOK \in BOOLEAN :
          LET err == adminError(reqs[r].user)
          IN  IF err # "none" THEN Respond(r, "admin", NoAmount, err)
              ELSE IF ~dbOK THEN Respond(r, "admin", NoAmount, "InternalError")
              ELSE Respond(r, "admin", NoAmount, "OK")

\* ---- handleLogout ----

\* Logout is a public route.  It stores no server-side state: it answers
\* with a cookie that has no user id and MaxAge -1, which tells the client
\* to drop its cookie.  sess is the user id in the cookie that was sent in.
handleLogout(r) ==
    /\ reqs[r].pc = "idle"
    /\ \A q \in Reqs : q < r => reqs[q].pc # "idle"
    /\ \E sess \in SessionIDs :
          reqs' = [reqs EXCEPT ![r] =
                      [IdleReq EXCEPT !.pc = "done", !.sess = sess,
                                      !.route = "logout",
                                      !.result = "LoggedOut"]]
    /\ UNCHANGED <<users, users0, credVars, deviceVars, now>>

\* ---- moderation ----

\* An operator bans, unbans, freezes or unfreezes a user.
Moderate(u) ==
    /\ \E banned, frozen \in BOOLEAN :
          /\ <<banned, frozen>> # <<users[u].isBanned, users[u].isFrozen>>
          /\ users' = [users EXCEPT ![u].isBanned = banned,
                                    ![u].isFrozen = frozen]
    /\ UNCHANGED <<users0, reqs, credVars, deviceVars, now>>

\* An operator grants or revokes a user's admin flag.
SetAdmin(u) ==
    /\ users' = [users EXCEPT ![u].isAdmin = ~users[u].isAdmin]
    /\ UNCHANGED <<users0, reqs, credVars, deviceVars, now>>

\* The HTTP status of an answer.
Status(result) ==
    CASE result \in {"OK", "LoggedOut"} -> 200
      [] result = "Created" -> 201
      [] result \in {"BelowMinimum", "InsufficientBalance", "NoHashPower",
                     "NoRewards", "BadUsername", "BadAccessKey"} -> 400
      [] result \in {"AuthRequired", "InvalidSession",
                     "InvalidCredentials"} -> 401
      [] result = "UsernameTaken" -> 409
      [] result \in {"Banned", "Frozen", "AdminRequired"} -> 403
      [] result \in {"InternalError", "CreateFailed"} -> 500
      [] OTHER -> 0

\* ---- the access-key hash: createUser and verifyAccessKey ----

\* A string is a sequence of characters.  A character of the base64 alphabet
\* is written as its index 0..63 in the alphabet; '=' (padding), ':' (the
\* separator of the stored form) and a character outside the alphabet have
\* codes of their own.  A byte is a number 0..255.
Alphabet == 0..63
PadChar == 64
Separator == 65
BadChar == 66

DecodeError == [ok |-> FALSE, bytes |-> <<>>]

\* base64.StdEncoding.EncodeToString: three bytes make four characters; a
\* last group of one or two bytes is padded with '='.
RECURSIVE b64Encode(_)
b64Encode(bs) ==
    IF Len(bs) = 0 THEN <<>>
    ELSE IF Len(bs) = 1
    THEN <<bs[1] \div 4, (bs[1] % 4) * 16, PadChar, PadChar>>
    ELSE IF Len(bs) = 2
    THEN <<bs[1] \div 4, (bs[1] % 4) * 16 + bs[2] \div 16,
           (bs[2] % 16) * 4, PadChar>>
    ELSE <<bs[1] \div 4, (bs[1] % 4) * 16 + bs[2] \div 16,
           (bs[2] % 16) * 4 + bs[3] \div 64, bs[3] % 64>>
         \o b64Encode(SubSeq(bs, 4, Len(bs)))

\* base64.StdEncoding.DecodeString: groups of four characters; padding is
\* required and allowed only in the last group; anything else is an error.
RECURSIVE b64Decode(_)
b64Decode(cs) ==
    IF Len(cs) = 0 THEN [ok |-> TRUE, bytes |-> <<>>]
    ELSE IF Len(cs) < 4 THEN DecodeError
    ELSE LET a == cs[1]
             b == cs[2]
             c == cs[3]
             d == cs[4]
             last == Len(cs) = 4
         IN  IF {a, b, c, d} \subseteq Alphabet
             THEN LET tail == b64Decode(SubSeq(cs, 5, Len(cs)))
                  IN  IF tail.ok
                      THEN [ok |-> TRUE,
                            bytes |-> <<a * 4 + b \div 16,
                                        (b % 16) * 16 + c \div 4,
                                        (c % 4) * 64 + d>> \o tail.bytes]
                      ELSE DecodeError
             ELSE IF last /\ {a, b} \subseteq Alphabet /\ c = PadChar
                          /\ d = PadChar
             THEN [ok |-> TRUE, bytes |-> <<a * 4 + b \div 16>>]
             ELSE IF last /\ {a, b, c} \subseteq Alphabet /\ d = PadChar
             THEN [ok |-> TRUE,
                   bytes |-> <<a * 4 + b \div 16, (b % 16) * 16 + c \div 4>>]
             ELSE DecodeError

\* scrypt.Key(password, salt, 32768, 8, 1, 32): KeyLen bytes that determine
\* the password and the salt (the password's length, the password, then the
\* salt, cut or zero-filled to KeyLen bytes).
scryptKey(password, salt) ==
    LET input == <<Len(password)>> \o password \o salt
    IN  [i \in 1..KeyLen |-> IF i <= Len(input) THEN input[i] ELSE 0]

\* The stored form that createUser builds from the access key and the salt.
hashedKey(accessKey, salt) ==
    b64Encode(scryptKey(accessKey, salt)) \o <<Separator>> \o b64Encode(salt)

\* The loop of splitHashedKey from the start of the current piece: the loop
\* runs to the next ':' and appends the piece before it; after the last
\* character it appends the rest only when the rest is not empty.
RECURSIVE splitLoop(_, _, _)
splitLoop(key, start, parts) ==
    LET seps == {i \in start..Len(key) : key[i] = Separator}
    IN  IF seps = {}
        THEN IF start <= Len(key)
             THEN Append(parts, SubSeq(key, start, Len(key)))
             ELSE parts
        ELSE LET i == CHOOSE k \in seps : \A j \in seps : k <= j
             IN  splitLoop(key, i + 1,
                           Append(parts, SubSeq(key, start, i - 1)))

splitHashedKey(key) == splitLoop(key, 1, <<>>)

\* Bitwise exclusive or, and bitwise or, of two bytes.
RECURSIVE BitXor(_, _)
BitXor(x, y) ==
    IF x = 0 THEN y
    ELSE IF y = 0 THEN x
    ELSE ((x + y) % 2) + 2 * BitXor(x \div 2, y \div 2)

RECURSIVE BitOr(_, _)
BitOr(x, y) ==
    IF x = 0 THEN y
    ELSE IF y = 0 THEN x
    ELSE (IF x % 2 = 1 \/ y % 2 = 1 THEN 1 ELSE 0)
         + 2 * BitOr(x \div 2, y \div 2)

\* The loop of compareHashes before iteration i (1-based), result being the
\* accumulated byte.
RECURSIVE compareLoop(_, _, _, _)
compareLoop(a, b, i, result) ==
    IF i > Len(a)
    THEN [equal |-> result = 0, iterations |-> i - 1]
    ELSE compareLoop(a, b, i + 1, BitOr(result, BitXor(a[i], b[i])))

\* A loop that returns at the first byte that differs.
RECURSIVE earlyExitLoop(_, _, _)
earlyExitLoop(a, b, i) ==
    IF i > Len(a) THEN [equal |-> TRUE, iterations |-> i - 1]
    ELSE IF a[i] # b[i] THEN [equal |-> FALSE, iterations |-> i]
    ELSE earlyExitLoop(a, b, i + 1)

\* compareHashes with a loop that returns at the first byte that differs.
compareHashes_EarlyExit(a, b) ==
    IF Len(a) # Len(b) THEN [equal |-> FALSE, iterations |-> 0]
    ELSE earlyExitLoop(a, b, 1)

\* compareHashes: its answer and the number of times its loop body ran.
compareHashes(a, b) ==
    IF Len(a) # Len(b) THEN [equal |-> FALSE, iterations |-> 0]
    ELSE compareLoop(a, b, 1, 0)

\* verifyAccessKey that accepts every plain key once both segments decode.
verifyAccessKey_DecodeOnly(key, plainKey) ==
    LET parts == splitHashedKey(key)
    IN  /\ Len(parts) = 2
        /\ b64Decode(parts[1]).ok
        /\ b64Decode(parts[2]).ok

verifyAccessKey(key, plainKey) ==
    LET parts == splitHashedKey(key)
    IN  IF Len(parts) # 2 THEN FALSE
        ELSE LET storedHash == b64Decode(parts[1])
                 salt == b64Decode(parts[2])
             IN  IF ~storedHash.ok THEN FALSE
                 ELSE IF ~salt.ok THEN FALSE
                 ELSE compareHashes(storedHash.bytes,
                                    scryptKey(plainKey, salt.bytes)).equal

\* The access keys of the model: at least MinAccessKey characters, as
\* handleRegister requires; they differ in their last characters.
KeyChars == {97, 98}
Tails == UNION {[1..n -> KeyChars] : n \in 1..MaxTail}
AccessKeys == {[i \in 1..(MinAccessKey - 1) |-> 97] \o t : t \in Tails}

\* The salts of the model: SaltLen bytes each.
Salts == {[i \in 1..SaltLen |-> b] : b \in 1..MaxSalts}

\* The strings that verifyAccessKey is given as the stored form of a key:
\* the string createUser stored, and damaged forms of it.
StoredForms(accessKey, salt) ==
    LET hash == scryptKey(accessKey, salt)
        h == b64Encode(hash)
        s == b64Encode(salt)
        sep == <<Separator>>
    IN  {h \o sep \o s,
         h \o s,
         h \o sep \o s \o sep \o s,
         h \o sep \o s \o sep,
         sep \o h \o sep \o s,
         h \o sep,
         <<>>,
         <<BadChar>> \o Tail(h) \o sep \o s,
         h \o sep \o SubSeq(s, 1, Len(s) - 1),
         b64Encode(SubSeq(hash, 1, KeyLen - 1)) \o sep \o s}

\* createUser hashes an access key with a fresh salt; the result is what it
\* stores in the access_key column.
Hash ==
    /\ cred.pc = "idle"
    /\ \E accessKey \in AccessKeys, salt \in Salts :
          cred' = [CredIdle EXCEPT !.pc = "stored", !.accessKey = accessKey,
                                   !.salt = salt,
                                   !.stored = hashedKey(accessKey, salt)]
    /\ UNCHANGED <<users, users0, reqs, cmp, deviceVars, now>>

\* handleLogin's call of verifyAccessKey on the access_key column of the row
\* and the plain key of the request.
Verify ==
    /\ cred.pc = "stored"
    /\ \E key \in StoredForms(cred.accessKey, cred.salt),
          plainKey \in AccessKeys :
          cred' = [cred EXCEPT !.pc = "verified", !.hashedKey = key,
                               !.plainKey = plainKey,
                               !.ok = verifyAccessKey(key, plainKey)]
    /\ UNCHANGED <<users, users0, reqs, cmp, deviceVars, now>>

\* The byte sequences that compareHashes is called with.
ByteSeqs == UNION {[1..n -> 0..MaxByte] : n \in 0..MaxCmpLen}

\* One call of compareHashes.
Compare ==
    /\ cmp.pc = "ready"
    /\ LET out == compareHashes(cmp.a, cmp.b)
       IN  cmp' = [cmp EXCEPT !.pc = "done", !.equal = out.equal,
                              !.iterations = out.iterations]
    /\ UNCHANGED <<users, users0, reqs, cred, deviceVars, now>>

\* ---- the device gate: upsertDevice and linkUserToDevice ----

ServerDeviceIDs == {"d1", "d2"}

\* The device-check requests of the model: the address they come from and
\* the signals they carry.
CheckRequests ==
    {[clientIP |-> "ip1",
      fingerprints |-> Fingerprint("ua", "1920x1080", "cv", "gl")],
     [clientIP |-> "ip2",
      fingerprints |-> Fingerprint("ua", "", "", "gl")]}

\* A well-formed device id that no row of the table has.
UnknownDeviceID == "id0"

\* The ids that the store gives to the rows it inserts, in order.
DeviceIDs == <<"id1", "id2", "id3", "id4">>

\* A risk score that also counts a missing timezone.
calculateRiskScore_Timezone(fingerprints) ==
    (IF fingerprints.userAgent = "" THEN 10 ELSE 0)
    + (IF fingerprints.screenResolution = "" THEN 5 ELSE 0)
    + (IF fingerprints.timezone = "" THEN 5 ELSE 0)
    + (IF fingerprints.canvasFingerprint = "" THEN 15 ELSE 0)
    + (IF fingerprints.webglFingerprint = "" THEN 10 ELSE 0)

calculateRiskScore(fingerprints) ==
    (IF fingerprints.userAgent = "" THEN 10 ELSE 0)
    + (IF fingerprints.screenResolution = "" THEN 5 ELSE 0)
    + (IF fingerprints.canvasFingerprint = "" THEN 15 ELSE 0)
    + (IF fingerprints.webglFingerprint = "" THEN 10 ELSE 0)

\* The rows of the table with this external device id.
selectDevice(serverDeviceID) ==
    {d \in devices : d.serverDeviceID = serverDeviceID}

\* The row that upsertDevice inserts for an external id it did not find.
insertDevice(id, serverDeviceID, clientIP, fingerprints) ==
    [id |-> id, serverDeviceID |-> serverDeviceID, lastIP |-> clientIP,
     registrations |-> 0, maxRegistrations |-> DefaultMaxRegistrations,
     blocked |-> FALSE, riskScore |-> calculateRiskScore(fingerprints),
     fingerprints |-> fingerprints]

\* An UPDATE that also starts the registration count again.
updateDevice_ResetCount(d, clientIP, fingerprints) ==
    [d EXCEPT !.lastIP = clientIP,
              !.riskScore = calculateRiskScore(fingerprints),
              !.fingerprints = fingerprints, !.registrations = 0]

\* The UPDATE of upsertDevice on a row with the request's external id.
updateDevice(d, clientIP, fingerprints) ==
    [d EXCEPT !.lastIP = clientIP,
              !.riskScore = calculateRiskScore(fingerprints),
              !.fingerprints = fingerprints]

\* A table without the uniqueness of the external device id.
UniqueViolation_None(serverDeviceID) == FALSE

\* The external device id is unique in the table: an INSERT of an id that
\* is already there fails.
UniqueViolation(serverDeviceID) == selectDevice(serverDeviceID) # {}

\* canRegister that also refuses a device whose risk score is 15 or more.
canRegister_RiskGated(device) ==
    /\ ~device.blocked /\ device.registrations < device.maxRegistrations
    /\ device.riskScore < 15

\* canRegister that does not look at the blocked flag.
canRegister_IgnoreBlocked(device) ==
    device.registrations < device.maxRegistrations

\* The canRegister of the answer, from upsertDevice's copy of the device.
canRegister(device) ==
    ~device.blocked /\ device.registrations < device.maxRegistrations

\* A link that writes back the count of a check's answer plus one instead of
\* incrementing the stored count.
linkUserToDevice_FromCopy(deviceID) ==
    LET c == CHOOSE x \in Clients :
                 clients[x].pc = "checked" /\ clients[x].deviceID = deviceID
    IN  {IF d.id = deviceID
         THEN [d EXCEPT !.registrations = clients[c].registrations + 1]
         ELSE d : d \in devices}

\* A link that leaves a blocked device and a device at its limit alone.
linkUserToDevice_Enforcing(deviceID) ==
    {IF d.id = deviceID /\ ~d.blocked
        /\ d.registrations < d.maxRegistrations
     THEN [d EXCEPT !.registrations = @ + 1] ELSE d : d \in devices}

\* The UPDATE of linkUserToDevice: every row with this id (at most one)
\* gets one more registration.
linkUserToDevice(deviceID) ==
    {IF d.id = deviceID THEN [d EXCEPT !.registrations = @ + 1] ELSE d :
        d \in devices}

RECURSIVE SumChecks(_)
SumChecks(cs) ==
    IF cs = {} THEN 0
    ELSE LET c == CHOOSE x \in cs : TRUE
         IN  clients[c].checks + SumChecks(cs \ {c})

\* The client's call ends without an answer that it can act on.
ClientFails(c, result) ==
    clients' = [clients EXCEPT ![c] =
                   [IdleClient EXCEPT !.checks = clients[c].checks,
                                      !.result = result]]

\* A device check arrives (a public route) and upsertDevice runs its SELECT.
\* Clients send their first checks in the order of their numbers.
handleDeviceCheck(c) ==
    /\ clients[c].pc \in {"idle", "checked"}
    /\ \A b \in Clients : b < c => clients[b].checks > 0
    /\ SumChecks(Clients) < MaxChecks
    /\ \E serverDeviceID \in ServerDeviceIDs, req \in CheckRequests,
          dbOK \in BOOLEAN :
          LET rows == selectDevice(serverDeviceID)
              sent == [IdleClient EXCEPT
                          !.checks = clients[c].checks + 1,
                          !.serverDeviceID = serverDeviceID,
                          !.clientIP = req.clientIP,
                          !.fingerprints = req.fingerprints]
          IN  clients' = [clients EXCEPT ![c] =
                  IF ~dbOK THEN [sent EXCEPT !.result = "CheckFailed"]
                  ELSE IF rows = {} THEN [sent EXCEPT !.pc = "selected"]
                  ELSE LET d == CHOOSE x \in rows : TRUE
                       IN  [sent EXCEPT
                               !.pc = "selected", !.found = TRUE,
                               !.deviceID = d.id,
                               !.registrations = d.registrations,
                               !.maxRegistrations = d.maxRegistrations,
                               !.blocked = d.blocked]]
    /\ UNCHANGED <<users, users0, reqs, credVars, devices, now>>

\* upsertDevice after its SELECT: the INSERT or the UPDATE, then the answer,
\* computed from the values of the SELECT (or of the INSERT).
upsertDevice(c) ==
    /\ clients[c].pc = "selected"
    /\ \E dbOK \in BOOLEAN :
          LET cl == clients[c]
              risk == calculateRiskScore(cl.fingerprints)
              id == DeviceIDs[Cardinality(devices) + 1]
          IN  IF ~dbOK \/ (~cl.found /\ UniqueViolation(cl.serverDeviceID))
              THEN /\ ClientFails(c, "CheckFailed")
                   /\ UNCHANGED devices
              ELSE IF ~cl.found
              THEN /\ devices' = devices \cup
                          {insertDevice(id, cl.serverDeviceID, cl.clientIP,
                                        cl.fingerprints)}
                   /\ LET device == [cl EXCEPT
                              !.deviceID = id, !.registrations = 0,
                              !.maxRegistrations = DefaultMaxRegistrations,
                              !.blocked = FALSE, !.riskScore = risk]
                      IN  clients' = [clients EXCEPT ![c] =
                              [device EXCEPT
                                  !.pc = "checked",
                                  !.canRegister = canRegister(device),
                                  !.result = "OK"]]
              ELSE /\ devices' =
                          {IF d.serverDeviceID = cl.serverDeviceID
                           THEN updateDevice(d, cl.clientIP, cl.fingerprints)
                           ELSE d : d \in devices}
                   /\ LET device == [cl EXCEPT !.riskScore = risk]
                      IN  clients' = [clients EXCEPT ![c] =
                              [device EXCEPT
                                  !.pc = "checked",
                                  !.canRegister = canRegister(device),
                                  !.result = "OK"]]
    /\ UNCHANGED <<users, users0, reqs, credVars, now>>

\* The client's link is answered; its record keeps the user id of the
\* session cookie that the link presented and the device id that it named.
LinkAnswered(c, sess, deviceID, result) ==
    clients' = [clients EXCEPT ![c] =
                   [IdleClient EXCEPT !.checks = clients[c].checks,
                                      !.result = result, !.sess = sess,
                                      !.linkID = deviceID]]

\* A device link arrives (a protected route) from a client whose own check
\* answered canRegister = true, with the device id of that answer.  The gate
\* and the handler run; on success the row's count goes up by one.  The
\* link names the device id of the client's check, an id that no row has,
\* or none.  A client whose link is refused starts again with a check.
handleDeviceLink(c) ==
    /\ clients[c].pc = "checked"
    /\ clients[c].canRegister
    /\ \E sess \in SessionIDs,
          deviceID \in {clients[c].deviceID, UnknownDeviceID, NoDevice},
          dbOK \in BOOLEAN :
       \E at \in CookieDays(sess) :
          LET userID == sessionUserID(sess, at)
              err == authError(userID, getUserByID(userID), TRUE)
          IN  IF err # "none"
              THEN LinkAnswered(c, sess, deviceID, err) /\ UNCHANGED devices
              ELSE IF deviceID = NoDevice
              THEN /\ LinkAnswered(c, sess, deviceID, "DeviceIDRequired")
                   /\ UNCHANGED devices
              ELSE IF ~dbOK
              THEN /\ LinkAnswered(c, sess, deviceID, "LinkFailed")
                   /\ UNCHANGED devices
              ELSE /\ devices' = linkUserToDevice(deviceID)
                   /\ LinkAnswered(c, sess, deviceID, "Linked")
    /\ UNCHANGED <<users, users0, reqs, credVars, now>>

\* An operator blocks a device.
BlockDevice(serverDeviceID) ==
    /\ \E d \in selectDevice(serverDeviceID) : ~d.blocked
    /\ devices' = {IF d.serverDeviceID = serverDeviceID
                   THEN [d EXCEPT !.blocked = TRUE] ELSE d :
                      d \in devices}
    /\ UNCHANGED <<users, users0, reqs, credVars, clients, now>>

\* ---- handleRegister, createUser and handleLogin ----

\* The usernames of the requests: of 2, 5, 3 and 21 characters.
Usernames == {"al", "alice", "bob", "abcdefghijklmnopqrstu"}

\* The access keys of the requests: one of MinAccessKey - 1 characters and
\* the two of MinAccessKey characters.
RequestKeys ==
    {[i \in 1..(MinAccessKey - 1) |-> 97]}
    \cup {k \in AccessKeys : Len(k) = MinAccessKey}

\* The ids that the store gives to the users it inserts, in order.
UserIDs == <<"u1", "u2", "u3", "u4">>

\* A request on /api/auth/register or /api/auth/login: its position, its
\* route, the username and access key it carries, its answer, and the user
\* id of the session that the answer issues (NoUser when it issues none) and
\* the day on which session.Save encodes that session's cookie.
AuthReq(pc, route, username, accessKey, result, issued) ==
    [pc |-> pc, route |-> route, username |-> username,
     accessKey |-> accessKey, result |-> result, issued |-> issued,
     issuedAt |-> IF issued = NoUser THEN 0 ELSE now]

\* handleRegister's validation of the request.
registerError(username, accessKey) ==
    IF username = "" \/ Len(username) < MinUsername
       \/ Len(username) > MaxUsername
    THEN "BadUsername"
    ELSE IF accessKey = <<>> \/ Len(accessKey) < MinAccessKey
    THEN "BadAccessKey"
    ELSE "none"

\* SELECT ... FROM users WHERE username = $1: a row, or nil when there is
\* none.
getUserByUsername(username) ==
    LET ids == {u \in DOMAIN users : users[u].username = username}
    IN  IF ids = {} THEN NoRow ELSE users[CHOOSE u \in ids : TRUE]

\* A users table that accepts a username twice.
UsernameViolation_None(username) == FALSE

\* The username is unique in the users table: an INSERT of a username that
\* is already there fails.
UsernameViolation(username) ==
    \E u \in DOMAIN users : users[u].username = username

\* The row that createUser inserts.
NewUser(id, username, key) ==
    User(id, 0, 0, 0, 0, FALSE, FALSE)
        @@ [username |-> username, accessKey |-> key]

\* A registration arrives: validation, then the existence check.
handleRegister(r) ==
    /\ reqs[r].pc = "idle"
    /\ \A q \in Reqs : q < r => reqs[q].pc # "idle"
    /\ \E username \in Usernames, accessKey \in RequestKeys,
          dbOK \in BOOLEAN :
          LET err == registerError(username, accessKey)
              answer(result) == AuthReq("done", "register", username,
                                        accessKey, result, NoUser)
          IN  reqs' = [reqs EXCEPT ![r] =
                  IF err # "none" THEN answer(err)
                  ELSE IF ~dbOK THEN answer("InternalError")
                  ELSE IF getUserByUsername(username) # NoRow
                  THEN answer("UsernameTaken")
                  ELSE AuthReq("creating", "register", username, accessKey,
                               "none", NoUser)]
    /\ UNCHANGED <<users, users0, credVars, deviceVars, now>>

\* createUser hashes the access key and INSERTs the row; handleRegister then
\* issues a session for the new user's id and answers 201.  When createUser
\* fails handleRegister answers 500; the answer is recorded as
\* "InternalError" when the store failed and as "CreateFailed" when the
\* store refused the INSERT because the username is there already.
createUser(r) ==
    /\ reqs[r].pc = "creating"
    /\ \E salt \in Salts, dbOK \in BOOLEAN :
          LET rq == reqs[r]
              id == UserIDs[Cardinality(DOMAIN users) + 1]
          IN  IF ~dbOK \/ UsernameViolation(rq.username)
              THEN /\ reqs' = [reqs EXCEPT
                          ![r].pc = "done",
                          ![r].result = IF ~dbOK THEN "InternalError"
                                        ELSE "CreateFailed"]
                   /\ UNCHANGED users
              ELSE /\ users' = users @@
                          (id :> NewUser(id, rq.username,
                                         hashedKey(rq.accessKey, salt)))
                   /\ reqs' = [reqs EXCEPT ![r].pc = "done",
                                           ![r].result = "Created",
                                           ![r].issued = id]
    /\ UNCHANGED <<users0, credVars, deviceVars, now>>

\* loginError that looks at the flags before it verifies the key.
loginError_FlagsFirst(user, accessKey) ==
    IF user = NoRow THEN "InvalidCredentials"
    ELSE IF user.isBanned THEN "Banned"
    ELSE IF user.isFrozen THEN "Frozen"
    ELSE IF ~verifyAccessKey(user.accessKey, accessKey)
    THEN "InvalidCredentials"
    ELSE "none"

\* The answer of handleLogin for the row found under the username.
loginError(user, accessKey) ==
    IF user = NoRow THEN "InvalidCredentials"
    ELSE IF ~verifyAccessKey(user.accessKey, accessKey)
    THEN "InvalidCredentials"
    ELSE IF user.isBanned THEN "Banned"
    ELSE IF user.isFrozen THEN "Frozen"
    ELSE "none"

\* A login arrives: the row is read by username, the key is verified, the
\* flags are checked and a session is issued.
handleLogin(r) ==
    /\ reqs[r].pc = "idle"
    /\ \A q \in Reqs : q < r => reqs[q].pc # "idle"
    /\ \E username \in Usernames, accessKey \in RequestKeys,
          dbOK \in BOOLEAN :
          LET user == getUserByUsername(username)
              err == loginError(user, accessKey)
              answer(result, issued) ==
                  AuthReq("done", "login", username, accessKey, result,
                          issued)
          IN  reqs' = [reqs EXCEPT ![r] =
                  IF ~dbOK THEN answer("InternalError", NoUser)
                  ELSE IF err # "none" THEN answer(err, NoUser)
                  ELSE answer("OK", user.id)]
    /\ UNCHANGED <<users, users0, credVars, deviceVars, now>>

\* ---- the session cookies and the clock ----

\* The cookies that session.Save has handed out so far, in handleRegister
\* and handleLogin: the user id in the cookie and the day of its encoding.
Cookies ==
    {[userID |-> reqs[q].issued, at |-> reqs[q].issuedAt] :
        q \in {x \in Reqs : /\ reqs[x].pc = "done"
                            /\ reqs[x].route \in {"register", "login"}
                            /\ reqs[x].issued # NoUser}}

\* A day passes.
Tick ==
    /\ now < MaxDays
    /\ now' = now + 1
    /\ UNCHANGED <<users, users0, reqs, credVars, deviceVars>>

\* ---- calculateRiskScore on all the signals of a device check ----

\* The signals of a device-check request: each of the four scored fields is
\* empty or one of two values, each of the other three is empty or not.
AllSignals ==
    [userAgent : {"", "ua1", "ua2"},
     screenResolution : {"", "1920x1080", "800x600"},
     canvasFingerprint : {"", "cv1", "cv2"},
     webglFingerprint : {"", "gl1", "gl2"},
     timezone : {"", "UTC"}, language : {"", "en"},
     audioFingerprint : {"", "au"}]

\* One call of calculateRiskScore, on the signals of client c's request.
Score(c) ==
    /\ clients[c].pc = "scoring"
    /\ clients' = [clients EXCEPT
                      ![c].pc = "scored",
                      ![c].riskScore =
                          calculateRiskScore(clients[c].fingerprints)]
    /\ UNCHANGED <<users, users0, reqs, credVars, devices, now>>

\* ---- specifications ----

\* No request is between its gate and its handler's answer.
NoneInFlight == \A q \in Reqs : reqs[q].pc # "authed"

\* Requests run in parallel: any request may pass the gate at any time.
Next ==
    \E r \in Reqs :
        \/ authMiddleware(r)
        \/ handlePurchasePower(r)
        \/ handleStartMining(r)
        \/ handleClaimRewards(r)

Spec == Init /\ [][Next]_vars

\* Requests run one after the other: a request passes the gate only when
\* every earlier request has been answered.
NextSerial ==
    \E r \in Reqs :
        \/ (NoneInFlight /\ authMiddleware(r))
        \/ handlePurchasePower(r)
        \/ handleStartMining(r)
        \/ handleClaimRewards(r)

SpecSerial == Init /\ [][NextSerial]_vars

\* Every user starts with funds, hash power and rewards and with no flag
\* set; flags change only through moderation.
InitGate ==
    /\ users = [u \in Users |->
                   User(u, MaxUSDT, MaxHash, MaxGBTC, MaxUnclaimed,
                        FALSE, FALSE)]
    /\ users0 = users
    /\ reqs = [r \in Reqs |-> IdleReq]
    /\ now = 0
    /\ CredentialAtRest
    /\ DeviceAtRest

\* Ledger requests run in parallel with bans and freezes.  Here the
\* purchases are of whole amounts.
NextModeration ==
    \/ \E r \in Reqs :
          \/ authMiddleware(r)
          \/ handlePurchasePower(r) /\ reqs'[r].body.tail = 0
          \/ handleStartMining(r)
          \/ handleClaimRewards(r)
    \/ \E u \in Users : Moderate(u)

SpecModeration == InitGate /\ [][NextModeration]_vars

\* Ledger requests run in parallel with logouts.
NextSession ==
    \E r \in Reqs :
        \/ authMiddleware(r)
        \/ handleLogout(r)
        \/ handlePurchasePower(r)
        \/ handleStartMining(r)
        \/ handleClaimRewards(r)

SpecSession == InitGate /\ [][NextSession]_vars

\* Requests on the admin routes run in parallel with grants and revokes of
\* the admin flag.
NextAdmin ==
    \/ \E r \in Reqs : authMiddleware(r) \/ adminMiddleware(r)
    \/ \E u \in Users : SetAdmin(u)

SpecAdmin == InitGate /\ [][NextAdmin]_vars


\* One access key is hashed and then verified.
NextCredential == Hash \/ Verify

InitCredential == LedgerAtRest /\ CredentialAtRest /\ DeviceAtRest

SpecCredential == InitCredential /\ [][NextCredential]_vars

\* compareHashes is called on a pair of byte sequences.
InitCompare ==
    /\ LedgerAtRest /\ DeviceAtRest
    /\ cred = CredIdle
    /\ \E a \in ByteSeqs, b \in ByteSeqs :
          cmp = [CmpIdle EXCEPT !.pc = "ready", !.a = a, !.b = b]

NextCompare == Compare

SpecCompare == InitCompare /\ [][NextCompare]_vars


\* Clients of the device gate run in parallel with each other and with the
\* blocking of devices.  Here a link names the device id of the client's
\* check or none.
NextDevice ==
    \/ \E c \in Clients :
          \/ handleDeviceCheck(c)
          \/ upsertDevice(c)
          \/ handleDeviceLink(c) /\ clients'[c].linkID # UnknownDeviceID
    \/ \E serverDeviceID \in ServerDeviceIDs : BlockDevice(serverDeviceID)

InitDevice == LedgerAtRest /\ CredentialAtRest /\ DeviceAtRest

SpecDevice == InitDevice /\ [][NextDevice]_vars

\* The device gate with all clients on the device "d1": their checks differ
\* in the address and in the signals.
NextGate ==
    \/ \E c \in Clients :
          \/ /\ handleDeviceCheck(c)
             /\ clients'[c].serverDeviceID = "d1"
          \/ upsertDevice(c)
          \/ handleDeviceLink(c)
    \/ BlockDevice("d1")

SpecGate == InitDevice /\ [][NextGate]_vars

\* The protected routes (the ledger and the device link) and the public
\* device check run in parallel with logouts and with the moderation of
\* "u1".  Here one client checks the device "d1" once and links it with the
\* device id of the check's answer, a logout presents the session of "u1",
\* the ledger requests present the session of "u1", of a user that is not
\* in the table, or none, and the purchases are of whole amounts.
NextProtected ==
    \/ \E r \in Reqs :
          \/ authMiddleware(r) /\ reqs'[r].sess # "u2"
          \/ handleLogout(r) /\ reqs'[r].sess = "u1"
          \/ handlePurchasePower(r) /\ reqs'[r].body.tail = 0
          \/ handleStartMining(r)
          \/ handleClaimRewards(r)
    \/ Moderate("u1")
    \/ /\ handleDeviceCheck(1)
       /\ clients'[1].serverDeviceID = "d1"
       /\ clients'[1].clientIP = "ip1"
       /\ clients'[1].checks = 1
    \/ upsertDevice(1)
    \/ handleDeviceLink(1) /\ clients'[1].linkID = clients[1].deviceID

SpecProtected == InitGate /\ [][NextProtected]_vars


\* Nobody has registered yet.
InitRegister ==
    /\ users = << >>
    /\ users0 = users
    /\ reqs = [r \in Reqs |-> IdleReq]
    /\ now = 0
    /\ CredentialAtRest
    /\ DeviceAtRest

\* Registrations and logins run in parallel with each other and with bans
\* and freezes.
NextRegister ==
    \/ \E r \in Reqs :
          \/ handleRegister(r)
          \/ createUser(r)
          \/ handleLogin(r)
    \/ \E u \in DOMAIN users : Moderate(u)

SpecRegister == InitRegister /\ [][NextRegister]_vars


\* Registrations run in parallel with the device checks of the clients that
\* send them and with the blocking of devices.  Here the clients share one
\* device and one address, and every registration asks for the name "alice" with a key of
\* MinAccessKey characters.
NextRegisterDevice ==
    \/ \E c \in Clients :
          \/ /\ handleDeviceCheck(c)
             /\ clients'[c].serverDeviceID = "d1"
             /\ clients'[c].clientIP = "ip1"
          \/ upsertDevice(c)
    \/ \E serverDeviceID \in ServerDeviceIDs : BlockDevice(serverDeviceID)
    \/ \E r \in Reqs :
          \/ /\ handleRegister(r)
             /\ reqs'[r].username = "alice"
             /\ Len(reqs'[r].accessKey) = MinAccessKey
          \/ createUser(r)

SpecRegisterDevice == InitRegister /\ [][NextRegisterDevice]_vars


\* Registrations and logins hand out session cookies, days pass, and
\* requests on a protected route present the cookies that were handed out.
\* Here every registration and login names "alice" with a key of
\* MinAccessKey characters.
NextLifetime ==
    \/ \E r \in Reqs :
          \/ /\ handleRegister(r)
             /\ reqs'[r].username = "alice"
             /\ Len(reqs'[r].accessKey) = MinAccessKey
          \/ createUser(r)
          \/ /\ handleLogin(r)
             /\ reqs'[r].username = "alice"
             /\ Len(reqs'[r].accessKey) = MinAccessKey
          \/ /\ authMiddleware(r)
             /\ [userID |-> reqs'[r].sess, at |-> reqs'[r].sessAt] \in Cookies
          \/ handleStartMining(r)
    \/ Tick

SpecLifetime == InitRegister /\ [][NextLifetime]_vars


\* calculateRiskScore is called on the signals of a request.
InitScore ==
    /\ LedgerAtRest /\ CredentialAtRest
    /\ devices = {}
    /\ \E fingerprints \in AllSignals :
          clients = [c \in Clients |->
                        IF c = 1
                        THEN [IdleClient EXCEPT
                                 !.pc = "scoring",
                                 !.fingerprints = fingerprints]
                        ELSE IdleClient]

NextScore == \E c \in Clients : Score(c)

SpecScore == InitScore /\ [][NextScore]_vars


\* ---- vocabulary of the properties ----

\* The requests that present user u's session.
OnUser(u) == {r \in Reqs : reqs[r].pc # "idle" /\ reqs[r].sess = u}

\* The request passed the gate and its handler answered without a store
\* failure.
Answered(r) ==
    /\ reqs[r].pc = "done"
    /\ reqs[r].result \in {"OK", "BelowMinimum", "InsufficientBalance",
                           "NoHashPower", "NoRewards"}

\* q and r are the only requests of user u, both on the given route, both
\* answered.
OnlyPair(u, q, r, route) ==
    /\ q < r
    /\ OnUser(u) = {q, r}
    /\ reqs[q].route = route /\ reqs[r].route = route
    /\ Answered(q) /\ Answered(r)

\* The sum of the amounts of user u's purchases among requests 1..n that
\* were answered 200.
RECURSIVE purchased(_, _)
purchased(u, n) ==
    IF n = 0 THEN 0
    ELSE purchased(u, n - 1) +
         (IF /\ reqs[n].sess = u
             /\ reqs[n].route = "purchase-power"
             /\ reqs[n].result = "OK"
          THEN reqs[n].amount ELSE 0)

\* ---- C1 ----
\* C1: two PurchasePower(a) and PurchasePower(b) requests of a user whose
\* USDT balance is exactly a+b (a, b >= 1) both succeed, whatever the
\* interleaving, and leave USDT = 0 and hash power raised by a+b.
C1_BothPurchasesApplied ==
    \A u \in Users : \A q, r \in Reqs :
        ( /\ OnlyPair(u, q, r, "purchase-power")
          /\ reqs[q].amount >= 1 /\ reqs[r].amount >= 1
          /\ reqs[q].amount + reqs[r].amount = users0[u].usdtBalance )
        => /\ reqs[q].result = "OK" /\ reqs[r].result = "OK"
           /\ users[u].usdtBalance = 0
           /\ users[u].hashPower =
                 users0[u].hashPower + reqs[q].amount + reqs[r].amount

\* ---- C2 ----
\* C2: when the balance covers a and covers b but not a+b, exactly one of
\* the two purchases succeeds and the other fails with InsufficientBalance.
C2_ExactlyOnePurchaseSucceeds ==
    \A u \in Users : \A q, r \in Reqs :
        ( /\ OnlyPair(u, q, r, "purchase-power")
          /\ users0[u].usdtBalance >= reqs[q].amount
          /\ users0[u].usdtBalance >= reqs[r].amount
          /\ users0[u].usdtBalance < reqs[q].amount + reqs[r].amount )
        => {reqs[q].result, reqs[r].result} = {"OK", "InsufficientBalance"}

\* ---- C3 ----
\* C3: in every reachable state every user's USDT, hash power, GBTC and
\* unclaimed balances are >= 0.
C3_BalancesNonNegative ==
    \A u \in Users :
        /\ users[u].usdtBalance >= 0
        /\ users[u].hashPower >= 0
        /\ users[u].gbtcBalance >= 0
        /\ users[u].unclaimedBalance >= 0

\* A purchase that spent the whole balance committed from a stale copy.
C3_Witness ==
    \E r \in Reqs :
        /\ reqs[r].route = "purchase-power"
        /\ reqs[r].wrote /\ reqs[r].stale
        /\ reqs[r].amount = reqs[r].user.usdtBalance
        /\ users[reqs[r].user.id].usdtBalance = 0

\* ---- C4 ----
\* C4: no ledger operation commits its UPDATE after another request's
\* UPDATE of the same row has fallen between its read and its write.
C4_ReadModifyWriteAtomic ==
    \A r \in Reqs : ~(reqs[r].wrote /\ reqs[r].stale)

\* ---- C5 ----
\* C5: of two ClaimRewards requests of a user with unclaimed u > 0 and GBTC
\* g exactly one succeeds, the other fails with NoRewards, and afterwards
\* GBTC = g+u and unclaimed = 0.
C5_DoubleClaimOnce ==
    \A u \in Users : \A q, r \in Reqs :
        ( /\ OnlyPair(u, q, r, "claim-rewards")
          /\ users0[u].unclaimedBalance > 0 )
        => /\ {reqs[q].result, reqs[r].result} = {"OK", "NoRewards"}
           /\ users[u].gbtcBalance =
                 users0[u].gbtcBalance + users0[u].unclaimedBalance
           /\ users[u].unclaimedBalance = 0

\* ---- C6 ----
\* C6: once all of a user's requests are answered, the USDT decrease and
\* the hash-power increase both equal the sum of the amounts of the
\* purchases that were answered 200.
C6_SuccessMeansCommitted ==
    \A u \in Users :
        (\A r \in OnUser(u) : reqs[r].pc = "done")
        => /\ users0[u].usdtBalance - users[u].usdtBalance =
                 purchased(u, MaxReqs)
           /\ users[u].hashPower - users0[u].hashPower =
                 purchased(u, MaxReqs)

\* ---- properties of a request that runs alone (SpecSerial) ----

\* Request r's handler answers in this step.
Answers(r, route) ==
    /\ reqs[r].pc = "authed"
    /\ reqs'[r].pc = "done"
    /\ reqs'[r].route = route

\* ---- C7 ----
\* C7: of two ClaimRewards calls in succession on a user with unclaimed
\* u > 0 the first succeeds and the second fails with NoRewards; afterwards
\* unclaimed = 0 and GBTC has grown by u, once.
C7_ClaimTwiceInSuccession ==
    \A u \in Users : \A q, r \in Reqs :
        ( /\ OnlyPair(u, q, r, "claim-rewards")
          /\ users0[u].unclaimedBalance > 0 )
        => /\ reqs[q].result = "OK"
           /\ reqs[r].result = "NoRewards"
           /\ users[u].unclaimedBalance = 0
           /\ users[u].gbtcBalance =
                 users0[u].gbtcBalance + users0[u].unclaimedBalance

\* Two claims in succession on a user who had rewards have been answered.
C7_Witness ==
    \E u \in Users : \E q, r \in Reqs :
        /\ OnlyPair(u, q, r, "claim-rewards")
        /\ users0[u].unclaimedBalance > 0
        /\ reqs[r].user.unclaimedBalance = 0
        /\ reqs[r].result = "NoRewards"

C9_ClaimAlone ==
    [][\A r \in Reqs : Answers(r, "claim-rewards") =>
          LET id == reqs[r].user.id
              result == reqs'[r].result
          IN  IF users[id].unclaimedBalance <= 0 THEN result = "NoRewards"
              ELSE \/ result = "InternalError"
                   \/ /\ result = "OK"
                      /\ users'[id].gbtcBalance =
                            users[id].gbtcBalance + users[id].unclaimedBalance
                      /\ users'[id].unclaimedBalance = 0
      ]_vars

\* A claim has moved a positive unclaimed balance to a non-zero GBTC balance.
C9_Witness ==
    \E r \in Reqs :
        /\ reqs[r].route = "claim-rewards"
        /\ reqs[r].result = "OK"
        /\ reqs[r].user.gbtcBalance > 0
        /\ users[reqs[r].user.id].gbtcBalance =
              reqs[r].user.gbtcBalance + reqs[r].user.unclaimedBalance
        /\ users[reqs[r].user.id].unclaimedBalance = 0

\* ---- C10 ----
\* C10: StartMining fails with NoHashPower when hash power <= 0 and
\* otherwise sets HasStartedMining; a repeat call with the flag already set
\* succeeds and leaves the user's whole row unchanged.
C10_StartMiningIdempotent ==
    [][\A r \in Reqs : Answers(r, "start-mining") =>
          LET id == reqs[r].user.id
              result == reqs'[r].result
          IN  /\ IF users[id].hashPower <= 0 THEN result = "NoHashPower"
                 ELSE \/ result = "InternalError"
                      \/ /\ result = "OK"
                         /\ users'[id].hasStartedMining
              /\ users[id].hasStartedMining =>
                    /\ result \in {"OK", "InternalError"}
                    /\ users' = users
      ]_vars

\* A repeat StartMining on a user who is already mining has succeeded.
C10_Witness ==
    \E u \in Users : \E q, r \in Reqs :
        /\ OnlyPair(u, q, r, "start-mining")
        /\ reqs[q].result = "OK"
        /\ reqs[r].user.hasStartedMining
        /\ reqs[r].result = "OK"

\* ---- C11 ----
\* C11: a ledger operation that answers with an error (BelowMinimum,
\* InsufficientBalance, NoHashPower, NoRewards or a store failure) leaves
\* the users table as it was, and no step shows a partial effect: USDT is
\* never debited without the same amount credited to hash power, and GBTC
\* is never credited without the unclaimed balance ending at zero.
C11_ErrorsLeaveRowUnchanged ==
    [][ /\ \A r \in Reqs :
              (reqs[r].pc = "authed" /\ reqs'[r].pc = "done"
                 /\ reqs'[r].result # "OK") => users' = users
        /\ \A u \in Users :
              /\ users'[u].usdtBalance # users[u].usdtBalance =>
                    users[u].usdtBalance - users'[u].usdtBalance =
                       users'[u].hashPower - users[u].hashPower
              /\ users'[u].gbtcBalance # users[u].gbtcBalance =>
                    users'[u].unclaimedBalance = 0
      ]_vars

\* A purchase that passed its checks was failed by the store, and another
\* request debited and credited the same user.
C11_Witness ==
    \E q, r \in Reqs :
        /\ reqs[q].result = "InternalError"
        /\ reqs[q].route = "purchase-power"
        /\ reqs[r].sess = reqs[q].sess
        /\ reqs[r].route = "purchase-power"
        /\ reqs[r].wrote
        /\ users[reqs[r].sess].usdtBalance < users0[reqs[r].sess].usdtBalance

\* ---- properties of the gates ----

\* Request r passes through authMiddleware in this step.
Validates(r) ==
    /\ reqs[r].pc = "idle"
    /\ reqs'[r].pc # "idle"
    /\ reqs'[r].route # "logout"

\* The answers with which authMiddleware turns a request away.
GateErrors == {"AuthRequired", "InvalidSession", "Banned", "Frozen"}

\* ---- C12 ----
\* C12: the gate reads the user's row afresh on every request and fails in
\* this order: no user id or no such user -> 401; else banned -> 403
\* banned; else frozen -> 403 frozen (a banned and frozen user gets the
\* banned answer); a request that fails the gate never reaches a handler.
C12_ValidatePriority ==
    [][\A r \in Reqs :
          /\ Validates(r) =>
                LET sess == reqs'[r].sess
                    result == reqs'[r].result
                    passed == reqs'[r].pc = "authed"
                IN  IF sess = NoUser
                    THEN result = "AuthRequired" /\ ~passed
                    ELSE IF sess \notin DOMAIN users
                    THEN result = "InvalidSession" /\ ~passed
                    ELSE IF result = "InvalidSession"
                    THEN ~passed
                    ELSE IF users[sess].isBanned
                    THEN result = "Banned" /\ Status(result) = 403 /\ ~passed
                    ELSE IF users[sess].isFrozen
                    THEN result = "Frozen" /\ Status(result) = 403 /\ ~passed
                    ELSE passed /\ reqs'[r].user = users[sess]
          /\ reqs'[r].result \in GateErrors =>
                /\ reqs'[r].pc = "done"
                /\ reqs'[r].route = "none"
                /\ ~reqs'[r].wrote
      ]_vars

\* A user who is both banned and frozen was turned away as banned, and a
\* frozen user as frozen.
C12_Witness ==
    \E q, r \in Reqs :
        /\ reqs[q].sess \in Users
        /\ users[reqs[q].sess].isBanned /\ users[reqs[q].sess].isFrozen
        /\ reqs[q].result = "Banned"
        /\ reqs[r].result = "Frozen"

\* ---- C13 ----
\* C13: a request whose validation starts while its user is banned or
\* frozen is answered 403 (401 if the read itself fails) and changes
\* nothing; once the flags are cleared the next request validates again.
C13_BanTakesEffectOnNextRequest ==
    [][\A r \in Reqs :
          (Validates(r) /\ reqs'[r].sess \in Users) =>
              LET u == reqs'[r].sess
                  result == reqs'[r].result
              IN  IF users[u].isBanned \/ users[u].isFrozen
                  THEN /\ Status(result) \in {403, 401}
                       /\ reqs'[r].pc = "done"
                       /\ users' = users
                  ELSE \/ reqs'[r].pc = "authed"
                       \/ result = "InvalidSession"
      ]_vars

\* A user who was not banned at first was turned away after a ban or
\* freeze, and a later request of the same session succeeded after the flag
\* was cleared.
C13_Witness ==
    \E u \in Users : \E q, r \in Reqs :
        /\ q < r
        /\ ~users0[u].isBanned /\ ~users0[u].isFrozen
        /\ reqs[q].sess = u /\ reqs[r].sess = u
        /\ reqs[q].result \in {"Banned", "Frozen"}
        /\ reqs[r].result = "OK"

\* ---- C14 ----
\* C14: after logout of a session every later request that presents that
\* session is answered 401 by the gate and reaches no handler.
C14_RevokedSessionRejected ==
    [][\A r \in Reqs :
          ( /\ Validates(r)
            /\ reqs'[r].sess # NoUser
            /\ \E q \in Reqs : /\ reqs[q].route = "logout"
                               /\ reqs[q].sess = reqs'[r].sess )
          => /\ Status(reqs'[r].result) = 401
             /\ reqs'[r].pc = "done"
      ]_vars

\* ---- C15 ----
\* C15: the admin gate runs only behind the session gate: a request
\* without a valid session is answered 401 and never reaches the admin
\* check; a valid non-admin session is answered 403; a valid admin session
\* proceeds; the admin flag that counts is the one in the row when the
\* request was validated, so a grant or revoke shows on the next request.
C15_AdminGateAfterValidate ==
    [][\A r \in Reqs :
          /\ (Validates(r) /\ reqs'[r].sess \notin DOMAIN users) =>
                /\ Status(reqs'[r].result) = 401
                /\ reqs'[r].pc = "done"
          /\ (Validates(r) /\ reqs'[r].pc = "authed") =>
                reqs'[r].user.isAdmin = users[reqs'[r].sess].isAdmin
          /\ reqs'[r].route = "admin" =>
                /\ reqs'[r].user # NoRow
                /\ IF reqs'[r].user.isAdmin
                   THEN reqs'[r].result \in {"OK", "InternalError"}
                   ELSE /\ reqs'[r].result = "AdminRequired"
                        /\ Status(reqs'[r].result) = 403
      ]_vars

\* On one session a request was refused by the admin gate and, after a
\* grant, the next one was let through.
C15_Witness ==
    \E u \in Users : \E q, r \in Reqs :
        /\ q < r
        /\ reqs[q].sess = u /\ reqs[r].sess = u
        /\ reqs[q].route = "admin" /\ reqs[q].result = "AdminRequired"
        /\ reqs[r].route = "admin" /\ reqs[r].result = "OK"

\* ---- properties of the access-key hash ----

\* The number of ':'-separated segments of a string.
SegmentCount(text) ==
    1 + Cardinality({i \in 1..Len(text) : text[i] = Separator})

\* A stored form that is not two segments, or whose segments do not decode,
\* or whose decoded hash is not KeyLen bytes long.
Malformed(text) ==
    \/ SegmentCount(text) # 2
    \/ LET k == CHOOSE i \in 1..Len(text) : text[i] = Separator
           hash == b64Decode(SubSeq(text, 1, k - 1))
           salt == b64Decode(SubSeq(text, k + 1, Len(text)))
       IN  ~hash.ok \/ ~salt.ok \/ Len(hash.bytes) # KeyLen

\* ---- C16 ----
\* C16: verifying a plain key against the string that createUser stored for
\* an access key answers true exactly when the plain key is that access key.
C16_VerifyAcceptsOnlyTheKey ==
    (cred.pc = "verified" /\ cred.hashedKey = cred.stored)
        => (cred.ok <=> cred.plainKey = cred.accessKey)

\* The access key itself was verified against its stored form and accepted.
C16_Witness ==
    /\ cred.pc = "verified"
    /\ cred.hashedKey = cred.stored
    /\ cred.plainKey = cred.accessKey
    /\ cred.ok

\* ---- C17 ----
\* C17: verifyAccessKey answers false for every plain key when the stored
\* form does not have exactly two ':'-separated segments, when a segment
\* does not decode, or when the decoded hash is not as long as the derived
\* key.
C17_VerifyFailsClosed ==
    (cred.pc = "verified" /\ Malformed(cred.hashedKey)) => ~cred.ok

\* ---- C18 ----
\* C18: compareHashes answers true exactly when its arguments have the same
\* length and the same bytes, and on arguments of the same length its loop
\* body runs once per byte wherever the contents differ.
C18_CompareHashesConstantTime ==
    cmp.pc = "done" =>
        /\ cmp.equal <=> (Len(cmp.a) = Len(cmp.b) /\ cmp.a = cmp.b)
        /\ Len(cmp.a) = Len(cmp.b) => cmp.iterations = Len(cmp.a)

\* Two sequences of the same length that differ in their first byte were
\* compared.
C18_Witness ==
    /\ cmp.pc = "done"
    /\ Len(cmp.a) = MaxCmpLen
    /\ Len(cmp.b) = MaxCmpLen
    /\ cmp.a[1] # cmp.b[1]
    /\ ~cmp.equal

\* ---- properties of the device gate ----

\* ---- C19 ----
\* C19: when every link follows the client's own check that answered
\* canRegister = true, no device has more registrations than its
\* maxRegistrations.
C19_RegistrationsWithinCap ==
    \A d \in devices : d.registrations <= d.maxRegistrations

\* Client c's check is answered in this step.
CheckAnswered(c) ==
    /\ clients[c].pc = "selected"
    /\ clients'[c].pc = "checked"

\* Row d is still in the table after the step, with the registrations,
\* maxRegistrations and blocked that it had.
CountsKept(d) ==
    \E e \in devices' :
        /\ e.id = d.id
        /\ e.serverDeviceID = d.serverDeviceID
        /\ e.registrations = d.registrations
        /\ e.maxRegistrations = d.maxRegistrations
        /\ e.blocked = d.blocked

\* ---- C20 ----
\* C20: a check of an external id that has no record creates exactly one
\* record, with registrations 0, maxRegistrations 2, blocked false and the
\* risk score of the signals; a check of an id that has a record changes
\* that record's last IP, signals and risk score only, and no check changes
\* any other record.
C20_CheckFrame ==
    [][\A c \in Clients : CheckAnswered(c) =>
          LET cl == clients[c]
              before == selectDevice(cl.serverDeviceID)
              after == {e \in devices' :
                           e.serverDeviceID = cl.serverDeviceID}
              risk == calculateRiskScore(cl.fingerprints)
          IN  /\ \A d \in devices : CountsKept(d)
              /\ \A d \in devices :
                    d.serverDeviceID # cl.serverDeviceID => d \in devices'
              /\ Cardinality(after) = 1
              /\ \A e \in after :
                    /\ e.lastIP = cl.clientIP
                    /\ e.fingerprints = cl.fingerprints
                    /\ e.riskScore = risk
              /\ before = {} =>
                    /\ Cardinality(devices') = Cardinality(devices) + 1
                    /\ \A e \in after :
                          /\ e.registrations = 0
                          /\ e.maxRegistrations = 2
                          /\ ~e.blocked
              /\ before # {} =>
                    Cardinality(devices') = Cardinality(devices)]_vars

\* A check of a device that already has a registration was answered, with
\* signals whose risk score differs from the stored one.
C20_Witness ==
    \E c \in Clients :
        /\ clients[c].pc = "checked"
        /\ clients[c].found
        /\ \E d \in devices :
              /\ d.id = clients[c].deviceID
              /\ d.registrations >= 1
              /\ d.riskScore = clients[c].riskScore
              /\ d.riskScore > 0

\* Client c's check runs its SELECT in this step.
CheckSelects(c) ==
    /\ clients[c].pc # "selected"
    /\ clients'[c].pc = "selected"

\* ---- C21 ----
\* C21: a check works on the values stored for the device when it reads the
\* row (or on the values of the row it inserts) and answers canRegister =
\* not blocked and registrations < maxRegistrations of those values; a
\* device read at its cap, or blocked, gets canRegister = false whatever the
\* signals are.
C21_CanRegisterFromStoredValues ==
    [][\A c \in Clients :
          /\ CheckSelects(c) =>
                LET rows == selectDevice(clients'[c].serverDeviceID)
                IN  /\ clients'[c].found <=> rows # {}
                    /\ \A d \in rows :
                          /\ clients'[c].blocked = d.blocked
                          /\ clients'[c].registrations = d.registrations
                          /\ clients'[c].maxRegistrations = d.maxRegistrations
          /\ CheckAnswered(c) =>
                LET cl == clients[c]
                    stored == IF cl.found THEN cl
                              ELSE CHOOSE e \in devices' :
                                      e.serverDeviceID = cl.serverDeviceID
                IN  /\ clients'[c].canRegister <=>
                          (~stored.blocked /\
                           stored.registrations < stored.maxRegistrations)
                    /\ clients'[c].registrations = stored.registrations
                    /\ clients'[c].blocked = stored.blocked
                    /\ (cl.found /\ (cl.blocked \/
                            cl.registrations >= cl.maxRegistrations))
                          => ~clients'[c].canRegister]_vars

\* A check that carried all four scored signals was answered canRegister =
\* false for a blocked device that is below its cap.
C21_Witness ==
    \E c \in Clients :
        /\ clients[c].pc = "checked"
        /\ clients[c].found
        /\ clients[c].blocked
        /\ clients[c].registrations < clients[c].maxRegistrations
        /\ clients[c].riskScore = 0
        /\ ~clients[c].canRegister

\* The clients whose link of the device with this id succeeds in this step.
Linkers(id) ==
    {c \in Clients : /\ clients[c].pc = "checked"
                     /\ clients'[c].linkID = id
                     /\ clients'[c].result = "Linked"}

\* ---- C22 ----
\* C22: a successful link adds exactly one to the registrations of its
\* device and changes nothing else in the table, and a device's
\* registrations change in no other way, so that links that run in parallel
\* are all counted.
C22_LinkAddsExactlyOne ==
    [][\A d \in devices :
          \E e \in devices' :
              /\ e.id = d.id
              /\ e.registrations = d.registrations + Cardinality(Linkers(d.id))
              /\ Linkers(d.id) # {} =>
                    /\ e = [d EXCEPT !.registrations = d.registrations + 1]
                    /\ devices' = (devices \ {d}) \cup {e}]_vars

\* Two clients checked a device that had one registration, and both of
\* their links were counted.
C22_Witness ==
    /\ \A c \in Clients : clients[c].result = "Linked"
    /\ \E d \in devices : d.registrations = 3

\* ---- properties of registration and login ----

\* The client (the device) that sends request r.
ClientOf(r) == ((r - 1) % 2) + 1

\* Request r's registration creates its user in this step.
Registers(r) ==
    /\ reqs[r].pc = "creating"
    /\ reqs'[r].result = "Created"

\* ---- C23 ----
\* C23: a user is created only for a client whose own device check has
\* answered canRegister = true.
C23_RegisterAfterDeviceCheck ==
    [][\A r \in Reqs : Registers(r) =>
          /\ clients[ClientOf(r)].pc = "checked"
          /\ clients[ClientOf(r)].canRegister]_vars

\* ---- C24 ----
\* C24: no two user records have the same username, also when two
\* registrations of one unused name both pass the existence check before
\* either inserts.
C24_UsernameUnique ==
    \A u, v \in DOMAIN users :
        users[u].username = users[v].username => u = v

\* Two registrations of one name both passed the existence check; one of
\* them created the user.
C24_Witness ==
    \E q, r \in Reqs :
        /\ q # r
        /\ reqs[q].pc = "done" /\ reqs[q].result = "Created"
        /\ reqs[r].pc = "creating"
        /\ reqs[r].username = reqs[q].username

\* ---- C25 ----
\* C25: a registration is answered 400 when the username is not 3 to 20
\* characters long or (the username being valid) the access key has fewer
\* than 6 characters, 409 whenever the username is taken at the time of the
\* answer (also for the loser of a race for the name), and otherwise creates
\* one user with zero balances and no flag set and issues a session for the
\* new user's id; a registration that fails creates no user and issues no
\* session.  (Answers to a failure of the store are left out.)
C25_RegisterOutcomes ==
    [][\A r \in Reqs :
          (reqs[r].pc # "done" /\ reqs'[r].pc = "done"
           /\ reqs'[r].route = "register"
           /\ reqs'[r].result # "InternalError") =>
             LET rq == reqs'[r]
                 badName == Len(rq.username) < 3 \/ Len(rq.username) > 20
                 badKey == Len(rq.accessKey) < 6
                 taken == \E u \in DOMAIN users :
                              users[u].username = rq.username
                 new == DOMAIN users' \ DOMAIN users
             IN  /\ badName => Status(rq.result) = 400
                 /\ (~badName /\ badKey) => Status(rq.result) = 400
                 /\ (~badName /\ ~badKey /\ taken) => Status(rq.result) = 409
                 /\ Status(rq.result) \in {400, 409, 201, 500}
                 /\ Status(rq.result) = 201 =>
                       /\ ~badName /\ ~badKey /\ ~taken
                       /\ new = {rq.issued}
                       /\ \A u \in new :
                             /\ users'[u].username = rq.username
                             /\ users'[u].usdtBalance = 0
                             /\ users'[u].hashPower = 0
                             /\ users'[u].gbtcBalance = 0
                             /\ users'[u].unclaimedBalance = 0
                             /\ ~users'[u].isBanned
                             /\ ~users'[u].isFrozen
                             /\ ~users'[u].isAdmin
                             /\ ~users'[u].hasStartedMining
                 /\ Status(rq.result) # 201 =>
                       /\ new = {}
                       /\ rq.issued = NoUser]_vars

\* ---- C26 ----
\* C26: a login is answered 401 with one and the same answer for an unknown
\* username and for a wrong access key, 403 for a banned or frozen user only
\* when the key verifies (banned before frozen), and a session for the
\* user's id exactly when the key verifies and the user is neither banned
\* nor frozen; a login that fails issues no session.
C26_LoginOutcomes ==
    [][\A r \in Reqs :
          (reqs[r].pc = "idle" /\ reqs'[r].pc = "done"
           /\ reqs'[r].route = "login" /\ reqs'[r].result # "InternalError")
          =>
             LET rq == reqs'[r]
                 ids == {u \in DOMAIN users :
                            users[u].username = rq.username}
                 keyOK == \E u \in ids :
                              verifyAccessKey(users[u].accessKey,
                                              rq.accessKey)
                 banned == \E u \in ids : users[u].isBanned
                 frozen == \E u \in ids : users[u].isFrozen
             IN  /\ (ids = {} \/ ~keyOK) =>
                       rq.result = "InvalidCredentials"
                 /\ rq.result = "InvalidCredentials" => Status(rq.result) = 401
                 /\ (keyOK /\ banned) => rq.result = "Banned"
                 /\ (keyOK /\ ~banned /\ frozen) => rq.result = "Frozen"
                 /\ rq.result \in {"Banned", "Frozen"} =>
                       Status(rq.result) = 403
                 /\ (keyOK /\ ~banned /\ ~frozen) =>
                       /\ rq.result = "OK"
                       /\ rq.issued \in ids
                 /\ rq.result # "OK" => rq.issued = NoUser
                 /\ users' = users]_vars

\* A banned and frozen user logged in with the right key and was answered
\* "banned".
C26_Witness ==
    \E q \in Reqs :
        /\ reqs[q].pc = "done" /\ reqs[q].route = "login"
        /\ reqs[q].result = "Banned"
        /\ \E u \in DOMAIN users :
              /\ users[u].username = reqs[q].username
              /\ users[u].isBanned /\ users[u].isFrozen
              /\ verifyAccessKey(users[u].accessKey, reqs[q].accessKey)

\* ---- properties of calculateRiskScore ----

\* 1 when the field is empty, else 0.
Missing(field) == IF field = "" THEN 1 ELSE 0

\* ---- C27 ----
\* C27: the risk score is 10 for an empty user agent plus 5 for an empty
\* screen resolution plus 15 for an empty canvas fingerprint plus 10 for an
\* empty webgl fingerprint, lies in 0..40, and is the same for all signals
\* in which the same ones of these four fields are empty.
C27_ScoreCountsMissingFields ==
    \A c \in Clients : clients[c].pc = "scored" =>
        LET f == clients[c].fingerprints
            score == clients[c].riskScore
        IN  /\ score = 10 * Missing(f.userAgent)
                       + 5 * Missing(f.screenResolution)
                       + 15 * Missing(f.canvasFingerprint)
                       + 10 * Missing(f.webglFingerprint)
            /\ score \in 0..40
            /\ \A g \in AllSignals :
                  (/\ Missing(g.userAgent) = Missing(f.userAgent)
                   /\ Missing(g.screenResolution) = Missing(f.screenResolution)
                   /\ Missing(g.canvasFingerprint)
                         = Missing(f.canvasFingerprint)
                   /\ Missing(g.webglFingerprint) = Missing(f.webglFingerprint))
                  => calculateRiskScore(g) = score

\* Signals with only the canvas fingerprint and the timezone missing were
\* scored 15.
C27_Witness ==
    \E c \in Clients :
        /\ clients[c].pc = "scored"
        /\ clients[c].fingerprints.canvasFingerprint = ""
        /\ clients[c].fingerprints.timezone = ""
        /\ clients[c].fingerprints.userAgent # ""
        /\ clients[c].riskScore = 15

\* ---- the gate without the signals ----

\* A row or a client's record with its signals and its risk score erased.
EraseSignals(rec) ==
    [rec EXCEPT !.riskScore = 0, !.fingerprints = Fingerprint("", "", "", "")]

LowDevices(devs) == {EraseSignals(d) : d \in devs}

LowClients(cls) == [c \in Clients |-> EraseSignals(cls[c])]

\* The step changes the erased record of client c to cl and leaves the
\* erased records of the other clients alone.
LowAnswer(c, cl) ==
    LowClients(clients') = [LowClients(clients) EXCEPT ![c] = EraseSignals(cl)]

\* A client's record after a call that ended without an answer.
LowFailed(c, result) ==
    [IdleClient EXCEPT !.checks = clients[c].checks, !.result = result]

\* The SELECT of a check, on the erased table.
LowSelect(c) ==
    /\ clients[c].pc \in {"idle", "checked"}
    /\ LowDevices(devices') = LowDevices(devices)
    /\ \E serverDeviceID \in ServerDeviceIDs,
          clientIP \in {req.clientIP : req \in CheckRequests},
          dbOK \in BOOLEAN :
          LET rows == {d \in LowDevices(devices) :
                          d.serverDeviceID = serverDeviceID}
              sent == [IdleClient EXCEPT
                          !.checks = clients[c].checks + 1,
                          !.serverDeviceID = serverDeviceID,
                          !.clientIP = clientIP]
          IN  LowAnswer(c,
                  IF ~dbOK THEN [sent EXCEPT !.result = "CheckFailed"]
                  ELSE IF rows = {} THEN [sent EXCEPT !.pc = "selected"]
                  ELSE LET d == CHOOSE x \in rows : TRUE
                       IN  [sent EXCEPT
                               !.pc = "selected", !.found = TRUE,
                               !.deviceID = d.id,
                               !.registrations = d.registrations,
                               !.maxRegistrations = d.maxRegistrations,
                               !.blocked = d.blocked])

\* The INSERT or UPDATE of a check and its answer, on the erased table and
\* the erased copy of the device.
LowUpsert(c) ==
    /\ clients[c].pc = "selected"
    /\ \E dbOK \in BOOLEAN :
          LET cl == EraseSignals(clients[c])
              low == LowDevices(devices)
              id == DeviceIDs[Cardinality(low) + 1]
              taken == \E d \in low : d.serverDeviceID = cl.serverDeviceID
          IN  IF ~dbOK \/ (~cl.found /\ taken)
              THEN /\ LowAnswer(c, LowFailed(c, "CheckFailed"))
                   /\ LowDevices(devices') = low
              ELSE IF ~cl.found
              THEN /\ LowDevices(devices') = low \cup
                          {EraseSignals(
                              insertDevice(id, cl.serverDeviceID, cl.clientIP,
                                           cl.fingerprints))}
                   /\ LET device == [cl EXCEPT
                              !.deviceID = id, !.registrations = 0,
                              !.maxRegistrations = DefaultMaxRegistrations,
                              !.blocked = FALSE]
                      IN  LowAnswer(c, [device EXCEPT
                                           !.pc = "checked",
                                           !.canRegister = canRegister(device),
                                           !.result = "OK"])
              ELSE /\ LowDevices(devices') =
                          {IF d.serverDeviceID = cl.serverDeviceID
                           THEN EraseSignals(
                                    updateDevice(d, cl.clientIP,
                                                 cl.fingerprints))
                           ELSE d : d \in low}
                   /\ LowAnswer(c, [cl EXCEPT
                                       !.pc = "checked",
                                       !.canRegister = canRegister(cl),
                                       !.result = "OK"])

\* A link, on the erased table.
LowLink(c) ==
    /\ clients[c].pc = "checked"
    /\ EraseSignals(clients[c]).canRegister
    /\ \E sess \in SessionIDs,
          deviceID \in {clients[c].deviceID, UnknownDeviceID, NoDevice},
          result \in {"AuthRequired", "InvalidSession", "Banned", "Frozen",
                      "DeviceIDRequired", "LinkFailed", "Linked"} :
          /\ LowAnswer(c, [LowFailed(c, result) EXCEPT
                               !.sess = sess, !.linkID = deviceID])
          /\ LowDevices(devices') =
                IF result = "Linked"
                THEN {IF d.id = deviceID
                      THEN [d EXCEPT !.registrations = @ + 1] ELSE d :
                         d \in LowDevices(devices)}
                ELSE LowDevices(devices)

\* An operator's block, on the erased table.
LowBlock ==
    /\ LowClients(clients') = LowClients(clients)
    /\ \E serverDeviceID \in ServerDeviceIDs :
          LowDevices(devices') =
              {IF d.serverDeviceID = serverDeviceID
               THEN [d EXCEPT !.blocked = TRUE] ELSE d :
                  d \in LowDevices(devices)}

\* ---- C28 ----
\* C28: the risk score never influences gating: with the signals and the
\* risk scores erased from the table and from the checks, every step of the
\* gate is the step of a gate that has neither, so the canRegister of every
\* check, the outcome of every link and every stored count, limit and flag
\* are the same in two runs that differ only in the signals of their checks.
C28_RiskScoreNeverGates ==
    [][\/ \E c \in Clients : LowSelect(c) \/ LowUpsert(c) \/ LowLink(c)
       \/ LowBlock]_vars

\* Two checks of one device, one with all signals and a score of 0 and one
\* with signals missing and a score of 20, have the same answer, and the
\* device has a registration.
C28_Witness ==
    \E a, b \in Clients :
        /\ clients[a].pc = "checked" /\ clients[b].pc = "checked"
        /\ clients[a].serverDeviceID = clients[b].serverDeviceID
        /\ clients[a].riskScore = 0 /\ clients[b].riskScore = 20
        /\ clients[a].canRegister /\ clients[b].canRegister
        /\ \E d \in devices :
              /\ d.serverDeviceID = clients[a].serverDeviceID
              /\ d.registrations = 1

\* ---- properties of the protected routes ----

\* The balances of a users-table row.
Balances(row) ==
    <<row.usdtBalance, row.hashPower, row.gbtcBalance, row.unclaimedBalance>>

\* A logout has presented this session.
Revoked(sess) ==
    \E q \in Reqs : /\ reqs[q].pc = "done" /\ reqs[q].route = "logout"
                    /\ reqs[q].sess = sess

\* The session's user is in the table and neither banned nor frozen.
GoodStanding(row) == row # NoRow /\ ~row.isBanned /\ ~row.isFrozen

\* ---- C29 ----
\* C29: a balance changes only in the handler step of a request, and a
\* registration count only in a link, whose session names a user that was in
\* the table and neither banned nor frozen when the gate read the row, and
\* whose session no logout had revoked when the request arrived; a device
\* check is answered without a session.
C29_MutationsBehindValidate ==
    [][/\ \A u \in DOMAIN users :
             Balances(users'[u]) # Balances(users[u]) =>
                 \E r \in Reqs :
                     /\ reqs[r].pc = "authed" /\ reqs'[r].pc = "done"
                     /\ reqs[r].sess = u
                     /\ GoodStanding(reqs[r].user)
                     /\ ~\E q \in Reqs :
                            /\ q < r /\ reqs[q].route = "logout"
                            /\ reqs[q].sess = reqs[r].sess
       /\ \A d \in devices :
             d \notin devices' =>
                 \/ \E c \in Clients :
                       /\ clients[c].pc = "selected"
                       /\ clients'[c].pc = "checked"
                       /\ clients'[c].sess = NoUser
                       /\ \E e \in devices' :
                             /\ e.id = d.id
                             /\ e.registrations = d.registrations
                 \/ \E c \in Clients :
                       /\ clients[c].pc = "checked"
                       /\ clients'[c].result = "Linked"
                       /\ GoodStanding(getUserByID(clients'[c].sess))
                       /\ ~Revoked(clients'[c].sess)
      ]_vars

\* C29 without the revoked sessions: mutations only behind a session whose
\* user is in the table and in good standing.
MutationsBehindGoodStanding ==
    [][/\ \A u \in DOMAIN users :
             Balances(users'[u]) # Balances(users[u]) =>
                 \E r \in Reqs :
                     /\ reqs[r].pc = "authed" /\ reqs'[r].pc = "done"
                     /\ reqs[r].sess = u
                     /\ GoodStanding(reqs[r].user)
       /\ \A d \in devices :
             d \notin devices' =>
                 \/ \E c \in Clients :
                       /\ clients[c].pc = "selected"
                       /\ clients'[c].pc = "checked"
                       /\ clients'[c].sess = NoUser
                       /\ \E e \in devices' :
                             /\ e.id = d.id
                             /\ e.registrations = d.registrations
                 \/ \E c \in Clients :
                       /\ clients[c].pc = "checked"
                       /\ clients'[c].result = "Linked"
                       /\ GoodStanding(getUserByID(clients'[c].sess))
      ]_vars

\* ---- properties of the session's lifetime ----

\* Request r presents its cookie to authMiddleware in this step and is let
\* through to its handler.
PassesGate(r) == reqs[r].pc = "idle" /\ reqs'[r].pc = "authed"

\* ---- C30 ----
\* C30: a request passes the gate only with a cookie that was encoded, by a
\* registration or a login, at most SessionMaxAge (7) days before, and
\* neither the gate nor the handler behind it hands out a cookie.
C30_SessionLifetimeSevenDays ==
    [][\A r \in Reqs :
          /\ PassesGate(r) =>
                /\ [userID |-> reqs'[r].sess, at |-> reqs'[r].sessAt]
                      \in Cookies
                /\ now - reqs'[r].sessAt <= SessionMaxAge
                /\ Cookies' = Cookies
          /\ (reqs[r].pc = "authed" /\ reqs'[r].pc = "done") =>
                Cookies' = Cookies
      ]_vars

\* C30 with the codecs' maximum age in the place of the cookie's.
SessionLifetimeOfCodec ==
    [][\A r \in Reqs :
          /\ PassesGate(r) =>
                /\ [userID |-> reqs'[r].sess, at |-> reqs'[r].sessAt]
                      \in Cookies
                /\ now - reqs'[r].sessAt <= CodecMaxAge
                /\ Cookies' = Cookies
          /\ (reqs[r].pc = "authed" /\ reqs'[r].pc = "done") =>
                Cookies' = Cookies
      ]_vars

\* A cookie that is older than the codecs' maximum age was turned away.
CodecRefusesOldCookie ==
    \E r \in Reqs :
        /\ reqs[r].pc = "done" /\ reqs[r].route = "none"
        /\ reqs[r].sess # NoUser /\ reqs[r].result = "AuthRequired"

\* ---- properties of the ledger's arithmetic ----

\* Request r's handler commits its UPDATE in this step.
Commits(r, route) ==
    /\ reqs[r].pc = "authed" /\ reqs'[r].pc = "done"
    /\ reqs'[r].route = route /\ reqs'[r].wrote

\* ---- C31 ----
\* C31: a purchase that commits writes a USDT balance that is the balance of
\* the handler's copy less exactly the decimal amount of the request's body,
\* and a hash power that is the copy's plus exactly that amount.
C31_ExactDecimalAmounts ==
    [][\A r \in Reqs : Commits(r, "purchase-power") =>
          LET user == reqs[r].user
              row == users'[user.id]
          IN  /\ Decimal(user.usdtBalance - row.usdtBalance, 0)
                    = reqs'[r].body
              /\ Decimal(row.hashPower - user.hashPower, 0) = reqs'[r].body
      ]_vars

\* C31 for the amount that came out of the float64.
AmountOfFloatDebited ==
    [][\A r \in Reqs : Commits(r, "purchase-power") =>
          LET user == reqs[r].user
              row == users'[user.id]
          IN  /\ Decimal(user.usdtBalance - row.usdtBalance, 0)
                    = NewFromFloat(Float64(reqs'[r].body))
              /\ Decimal(row.hashPower - user.hashPower, 0)
                    = NewFromFloat(Float64(reqs'[r].body))
      ]_vars

\* ---- C32 ----
\* C32: for every user the sum of the USDT balance and the hash power is in
\* every reachable state what it was before the first request.
C32_UsdtPlusHashConstant ==
    \A u \in DOMAIN users :
        users[u].usdtBalance + users[u].hashPower
            = users0[u].usdtBalance + users0[u].hashPower

\* Two purchases of one user have both committed, the second of them from a
\* copy that the first had made stale.
C32_Witness ==
    \E q, r \in Reqs :
        /\ q # r /\ reqs[q].sess = reqs[r].sess
        /\ reqs[q].route = "purchase-power" /\ reqs[q].wrote
        /\ reqs[r].route = "purchase-power" /\ reqs[r].wrote
        /\ reqs[r].stale
        /\ users[reqs[r].sess].hashPower > users0[reqs[r].sess].hashPower

\* ---- C33 ----
\* C33: for every user the sum of the GBTC balance and the unclaimed balance
\* is in every reachable state what it was before the first request.
C33_GbtcPlusUnclaimedConstant ==
    \A u \in DOMAIN users :
        users[u].gbtcBalance + users[u].unclaimedBalance
            = users0[u].gbtcBalance + users0[u].unclaimedBalance

\* Two claims of one user have both committed, the second of them from a
\* copy that the first had made stale, and the rewards were credited once.
C33_Witness ==
    \E q, r \in Reqs :
        /\ q # r /\ reqs[q].sess = reqs[r].sess
        /\ reqs[q].route = "claim-rewards" /\ reqs[q].wrote
        /\ reqs[r].route = "claim-rewards" /\ reqs[r].wrote
        /\ reqs[r].stale
        /\ users[reqs[r].sess].unclaimedBalance = 0
        /\ users[reqs[r].sess].gbtcBalance > users0[reqs[r].sess].gbtcBalance

\* ---- C34 ----
\* C34: the handler step of a ledger request leaves every row but the row of
\* the session's user as it is, and changes in that row at most the USDT
\* balance and the hash power (purchase), the started-mining flag (start
\* mining) or the GBTC and unclaimed balances (claim).
C34_LedgerFrame ==
    [][\A r \in Reqs :
          (reqs[r].pc = "authed" /\ reqs'[r].pc = "done") =>
              LET id == reqs[r].sess
                  route == reqs'[r].route
                  old == users[id]
                  new == users'[id]
              IN  /\ \A u \in DOMAIN users \ {id} : users'[u] = users[u]
                  /\ DOMAIN users' = DOMAIN users
                  /\ route = "purchase-power" =>
                        new = [old EXCEPT !.usdtBalance = new.usdtBalance,
                                          !.hashPower = new.hashPower]
                  /\ route = "start-mining" =>
                        new = [old EXCEPT
                                  !.hasStartedMining = new.hasStartedMining]
                  /\ route = "claim-rewards" =>
                        new = [old EXCEPT
                                  !.gbtcBalance = new.gbtcBalance,
                                  !.unclaimedBalance = new.unclaimedBalance]
                  /\ route \notin {"purchase-power", "start-mining",
                                   "claim-rewards"} => new = old
      ]_vars

\* A purchase committed from a copy that a start of mining had made stale,
\* and the user's started-mining flag is still set.
C34_Witness ==
    \E q, r \in Reqs :
        /\ q # r /\ reqs[q].sess = reqs[r].sess
        /\ reqs[q].route = "start-mining" /\ reqs[q].wrote
        /\ reqs[r].route = "purchase-power" /\ reqs[r].wrote /\ reqs[r].stale
        /\ ~reqs[r].user.hasStartedMining
        /\ users[reqs[r].sess].hasStartedMining

\* ---- C35 ----
\* C35: no ledger handler commits its UPDATE to the row of a user who is
\* banned or frozen at that moment.
C35_NoWriteWhileBannedOrFrozen ==
    [][\A r \in Reqs :
          (reqs[r].pc = "authed" /\ reqs'[r].pc = "done" /\ reqs'[r].wrote)
              => /\ ~users[reqs[r].sess].isBanned
                 /\ ~users[reqs[r].sess].isFrozen
      ]_vars

\* C35 for the flags that the gate read: no handler commits for a request
\* whose copy of the row is banned or frozen.
NoWriteFromBannedCopy ==
    [][\A r \in Reqs :
          (reqs[r].pc = "authed" /\ reqs'[r].pc = "done" /\ reqs'[r].wrote)
              => ~reqs[r].user.isBanned /\ ~reqs[r].user.isFrozen
      ]_vars

\* ---- properties of the link ----

\* Client c's link is answered in this step.
LinkStep(c) ==
    /\ clients[c].pc = "checked" /\ clients'[c].pc = "idle"
    /\ clients'[c].result \in
          GateErrors \cup {"DeviceIDRequired", "LinkFailed", "Linked"}

\* ---- C36 ----
\* C36: a link is refused only by the session gate, for a missing device id
\* or by a failure of the store, and a link that is answered with success
\* has raised the registration count of the device that it named by one,
\* also when the device is blocked, when its count has reached its limit and when the same
\* user has linked it before.
C36_LinkEnforcesNothing ==
    [][\A c \in Clients : LinkStep(c) =>
          LET sess == clients'[c].sess
              err == authError(sess, getUserByID(sess), TRUE)
              result == clients'[c].result
          IN  /\ err # "none" => result = err
              /\ err = "none" =>
                    result \in {"DeviceIDRequired", "LinkFailed", "Linked"}
              /\ \A d \in devices :
                    (result = "Linked" /\ d.id = clients'[c].linkID) =>
                        [d EXCEPT !.registrations = @ + 1] \in devices'
      ]_vars

\* The device is blocked and has three registrations with a limit of two,
\* and the last links of both clients, by the same user, succeeded.
C36_Witness ==
    /\ \E d \in devices :
          /\ d.blocked /\ d.maxRegistrations = DefaultMaxRegistrations
          /\ d.registrations = DefaultMaxRegistrations + 1
    /\ \A c \in Clients : clients[c].result = "Linked"
    /\ \E a, b \in Clients :
          a # b /\ clients[a].sess = clients[b].sess

\* ---- C37 ----
\* C37: a link that is answered with success has incremented the
\* registrations of some device.
C37_LinkSuccessMeansIncrement ==
    [][\A c \in Clients :
          (LinkStep(c) /\ clients'[c].result = "Linked") =>
              \E d \in devices :
                  /\ d \notin devices'
                  /\ [d EXCEPT !.registrations = @ + 1] \in devices'
      ]_vars

\* C37 for the links that name the id of a row.
KnownLinkSuccessMeansIncrement ==
    [][\A c \in Clients :
          ( /\ LinkStep(c) /\ clients'[c].result = "Linked"
            /\ \E d \in devices : d.id = clients'[c].linkID ) =>
              \E d \in devices :
                  /\ d \notin devices'
                  /\ [d EXCEPT !.registrations = @ + 1] \in devices'
      ]_vars

\* ---- C38 ----
\* Client c's check found no record of its external device id and is
\* between its SELECT and its INSERT.
SelectedUnseen(c) ==
    clients[c].pc = "selected" /\ ~clients[c].found

\* C38: with checks of one unseen external device id running in parallel,
\* each with a SELECT that found nothing and then an INSERT, the table never
\* holds more than one record of an external id, and every such check that
\* is answered reports registrations 0.
C38_ConcurrentChecksOneRecord ==
    /\ [](\A serverDeviceID \in ServerDeviceIDs :
             Cardinality(selectDevice(serverDeviceID)) <= 1)
    /\ [][\A c \in Clients :
             (SelectedUnseen(c) /\ clients'[c].pc = "checked") =>
                 /\ clients'[c].result = "OK"
                 /\ clients'[c].registrations = 0
                 /\ \E d \in devices' \ devices :
                       /\ d.id = clients'[c].deviceID
                       /\ d.serverDeviceID = clients[c].serverDeviceID
                       /\ d.registrations = 0
       ]_vars

\* Two checks of one unseen id both found nothing; the INSERT of the first
\* committed and was answered with registrations 0, the second is still
\* before its INSERT, and the table holds the one record.
C38_Witness ==
    \E a, b \in Clients :
        /\ a # b
        /\ clients[a].pc = "checked" /\ ~clients[a].found
        /\ clients[a].result = "OK" /\ clients[a].registrations = 0
        /\ SelectedUnseen(b)
        /\ clients[b].serverDeviceID = clients[a].serverDeviceID
        /\ Cardinality(selectDevice(clients[a].serverDeviceID)) = 1

\* The second of two such checks failed on its INSERT and the record of the
\* first is unchanged.
InsertLoserFails ==
    [][\A c \in Clients :
          (SelectedUnseen(c) /\ UniqueViolation(clients[c].serverDeviceID)) =>
              (clients'[c].pc # "selected" =>
                  /\ clients'[c].result = "CheckFailed"
                  /\ devices' = devices)
      ]_vars

\* ---- C39 ----
\* C39: a user's started-mining flag, once set, is set in every later
\* state, whatever ledger operations follow.
C39_HasStartedMiningMonotonic ==
    [][\A u \in Users :
          users[u].hasStartedMining => users'[u].hasStartedMining]_vars

\* A claim committed from a copy that was read before the user's start of
\* mining committed, and the user's started-mining flag is still set.
C39_Witness ==
    \E q, r \in Reqs :
        /\ q # r /\ reqs[q].sess = reqs[r].sess
        /\ reqs[q].route = "start-mining" /\ reqs[q].wrote
        /\ reqs[r].route = "claim-rewards" /\ reqs[r].wrote /\ reqs[r].stale
        /\ ~reqs[r].user.hasStartedMining
        /\ users[reqs[r].sess].hasStartedMining

====
